---- MODULE Spec2Model ----
(***************************************************************************)
(* Overthinker AI: the intent classification and constraint extraction     *)
(* core (overthinker/core/intent_classifier.py) and its callers.           *)
(*                                                                         *)
(* Python strings are TLA+ strings; TLC evaluates Len, SubSeq, Head, Tail  *)
(* and \o on them.  A confidence (a Python float in [0, 1]) is kept as the *)
(* exact numerator of a fraction over ConfDen: every value the code can    *)
(* compute is a multiple of 1/ConfDen, and float rounding is monotone, so  *)
(* equalities and orderings of the fractions are those of the floats.      *)
(***************************************************************************)
EXTENDS Integers, Sequences, FiniteSets, TLC

\* ------------------------------------------------------------------------
\* IntentClassifier.__init__ : the category definitions
\* ------------------------------------------------------------------------

\* self.intent_patterns, a dict: iteration follows insertion order
IntentOrder ==
    <<"transportation", "purchase", "food", "career", "health",
      "relationship">>

Intents == {IntentOrder[i] : i \in DOMAIN IntentOrder}

intent_patterns ==
    [ transportation |->
      [ verbs     |-> <<"go", "travel", "commute", "drive", "ride",
                        "walk", "bike", "fly", "reach", "arrive",
                        "move", "head", "navigate", "drop">>,
        nouns     |-> <<"bus", "car", "train", "taxi", "uber", "ola",
                        "bike", "plane", "metro", "auto", "transport",
                        "rickshaw", "scooter", "cab", "airport",
                        "station", "office", "work", "rapido",
                        "vehicle", "cabs", "commute">>,
        phrases   |-> <<"get to", "how to reach", "way to", "going to",
                        "travel to", "commute to", "best route",
                        "fastest way", "or uber", "vs uber", "or ola",
                        "vs ola", "or cab", "vs cab", "vs metro",
                        "or metro", "vs bus", "or bus", "take the",
                        "airport drop">>,
        locations |-> <<"GPE", "LOC", "FAC">> ],
      purchase |->
      [ verbs     |-> <<"buy", "purchase", "get", "acquire", "order",
                        "shop", "invest", "upgrade", "replace",
                        "spend", "repair">>,
        nouns     |-> <<"phone", "laptop", "product", "item", "gadget",
                        "device", "clothes", "watch", "tv", "camera",
                        "headphones", "shoes", "iphone", "samsung",
                        "macbook", "airpods">>,
        phrases   |-> <<"should i buy", "worth buying",
                        "repair or replace", "new vs old",
                        "buy or wait", "worth getting", "or repair",
                        "new phone", "new laptop", "buy new">>,
        modifiers |-> <<"new", "old", "expensive", "cheap", "affordable">> ],
      food |->
      [ verbs     |-> <<"eat", "cook", "order", "dine", "prepare",
                        "make", "bake">>,
        nouns     |-> <<"food", "restaurant", "meal", "dinner",
                        "lunch", "breakfast", "snack", "swiggy",
                        "zomato", "kitchen", "recipe", "delivery">>,
        phrases   |-> <<"cook or order", "eat out", "home cooked",
                        "order food", "dine out", "food delivery",
                        "make food", "cook at home", "or order",
                        "or cook", "swiggy delivery", "zomato delivery">> ],
      career |->
      [ verbs     |-> <<"work", "join", "switch", "apply", "resign",
                        "accept", "quit", "leave", "change", "ask">>,
        nouns     |-> <<"job", "career", "company", "offer", "salary",
                        "position", "role", "promotion", "boss",
                        "workplace", "office", "raise", "hike">>,
        phrases   |-> <<"job offer", "change job", "new job",
                        "career move", "switch companies", "leave job",
                        "job switch", "ask for raise",
                        "look elsewhere", "remote position">> ],
      health |->
      [ verbs     |-> <<"exercise", "sleep", "rest", "workout", "diet",
                        "run", "jog", "see", "join">>,
        nouns     |-> <<"health", "gym", "doctor", "medicine",
                        "fitness", "sleep", "hospital", "clinic",
                        "workout", "yoga", "specialist", "physician",
                        "checkup">>,
        phrases   |-> <<"see a doctor", "go to gym", "health concern",
                        "feel sick", "start exercising",
                        "workout routine", "join gym", "at home",
                        "or gym", "yoga class", "health checkup",
                        "see specialist">> ],
      relationship |->
      [ verbs     |-> <<"date", "marry", "propose", "breakup", "meet",
                        "talk", "ask", "apologize">>,
        nouns     |-> <<"relationship", "girlfriend", "boyfriend",
                        "partner", "friend", "family", "marriage",
                        "date", "her", "him">>,
        phrases   |-> <<"ask out", "break up", "get married",
                        "in love", "ask her", "ask him",
                        "apologize first", "should i ask">> ] ]

\* ------------------------------------------------------------------------
\* Python built-ins used by the core
\* ------------------------------------------------------------------------

UpperCase == "ABCDEFGHIJKLMNOPQRSTUVWXYZ"

LowerCase == "abcdefghijklmnopqrstuvwxyz"

\* str.lower() on the ASCII letters, as a table
LowerTable ==
    [c \in {SubSeq(UpperCase, i, i) : i \in 1..Len(UpperCase)} |->
        LET i == CHOOSE j \in 1..Len(UpperCase) : SubSeq(UpperCase, j, j) = c
        IN  SubSeq(LowerCase, i, i)]

\* str.lower() of one character
LowerChar(c) == IF c \in DOMAIN LowerTable THEN LowerTable[c] ELSE c

\* a variant that leaves the case as it is
NotLowered(s) == s

RECURSIVE lower(_)
\* str.lower()
lower(s) ==
    IF s = "" THEN "" ELSE LowerChar(SubSeq(s, 1, 1)) \o lower(Tail(s))

\* `sub in s` for two strings
StrIn(sub, s) ==
    \E i \in 1..(Len(s) - Len(sub) + 1) : SubSeq(s, i, i + Len(sub) - 1) = sub

\* `x in lst` for a list
ListIn(x, lst) == \E i \in DOMAIN lst : lst[i] = x

\* [f(x) for x in lst]
LowerAll(lst) == [i \in DOMAIN lst |-> lower(lst[i])]

RECURSIVE InsertByLenDesc(_, _)
\* one step of a stable sort by descending length: p goes after every
\* element at least as long
InsertByLenDesc(p, sorted) ==
    IF sorted = <<>> THEN <<p>>
    ELSE IF Len(Head(sorted)) >= Len(p)
         THEN <<Head(sorted)>> \o InsertByLenDesc(p, Tail(sorted))
         ELSE <<p>> \o sorted

RECURSIVE SortedByLenDesc(_, _)
\* sorted(lst, key=len, reverse=True): stable, equal lengths keep their order
SortedByLenDesc(lst, acc) ==
    IF lst = <<>> THEN acc
    ELSE SortedByLenDesc(Tail(lst), InsertByLenDesc(Head(lst), acc))

RECURSIVE InsertDesc(_, _)
InsertDesc(v, sorted) ==
    IF sorted = <<>> THEN <<v>>
    ELSE IF Head(sorted) >= v
         THEN <<Head(sorted)>> \o InsertDesc(v, Tail(sorted))
         ELSE <<v>> \o sorted

RECURSIVE SortedDesc(_, _)
\* sorted(values, reverse=True)
SortedDesc(lst, acc) ==
    IF lst = <<>> THEN acc
    ELSE SortedDesc(Tail(lst), InsertDesc(Head(lst), acc))

Min(a, b) == IF a <= b THEN a ELSE b

\* ------------------------------------------------------------------------
\* IntentClassifier.classify_intent : the six signals of one category
\* ------------------------------------------------------------------------

VerbWeight == 4

NounWeight == 3

PhraseWeight == 6

EntityWeight == 3

ModifierWeight == 2

FallbackWeight == 2

\* parsed_data.get(key, [])
DictGet(d, key) == IF key \in DOMAIN d THEN d[key] ELSE <<>>

\* a variant that counts each distinct matching verb once
VerbSignalDedup(actions, verbs) ==
    VerbWeight * Cardinality({lower(actions[i]) : i \in DOMAIN actions}
                             \cap {verbs[k] : k \in DOMAIN verbs})

RECURSIVE VerbSignal(_, _)
\* Signal 1: for action in actions: if action.lower() in verbs: score += 4
VerbSignal(actions, verbs) ==
    IF actions = <<>> THEN 0
    ELSE (IF ListIn(lower(Head(actions)), verbs) THEN VerbWeight ELSE 0)
         + VerbSignal(Tail(actions), verbs)

RECURSIVE NounSignal(_, _)
\* Signal 2: for noun in nouns: if noun.lower() in pattern nouns: score += 3
NounSignal(nouns, pattern_nouns) ==
    IF nouns = <<>> THEN 0
    ELSE (IF ListIn(lower(Head(nouns)), pattern_nouns) THEN NounWeight ELSE 0)
         + NounSignal(Tail(nouns), pattern_nouns)

\* the value of phrase_hit when the phrase loop ends without a break
NoPhrase == ""

RECURSIVE PhraseScan(_, _)
\* Signal 3, the loop: the phrase at which the scan breaks, or NoPhrase
PhraseScan(sorted_phrases, text_lower) ==
    IF sorted_phrases = <<>> THEN NoPhrase
    ELSE IF StrIn(Head(sorted_phrases), text_lower)
         THEN Head(sorted_phrases)
         ELSE PhraseScan(Tail(sorted_phrases), text_lower)

\* Signal 3: the scan over sorted(phrases, key=len, reverse=True)
PhraseHit(phrases, text_lower) ==
    PhraseScan(SortedByLenDesc(phrases, <<>>), text_lower)

\* a variant without the break: every occurring phrase counts
PhraseSignalNoBreak(phrases, text_lower) ==
    PhraseWeight * Cardinality({k \in DOMAIN phrases :
                                   StrIn(phrases[k], text_lower)})

\* a variant that wants the phrase to be the whole text
PhraseSignalWholeText(phrases, text_lower) ==
    IF ListIn(text_lower, phrases) THEN PhraseWeight ELSE 0

PhraseSignal(phrases, text_lower) ==
    IF PhraseHit(phrases, text_lower) # NoPhrase THEN PhraseWeight ELSE 0

\* a variant that takes any label as a place when the category has
\* 'locations', unless it is one of the other labels it knows
EntityScoreAnyLabel(entity, patterns) ==
    (IF ListIn(lower(entity.text), patterns.nouns) THEN EntityWeight ELSE 0)
    + (IF "locations" \in DOMAIN patterns
          /\ ~ListIn(entity.label, <<"PERSON", "ORG", "MONEY", "DATE", "TIME">>)
       THEN EntityWeight ELSE 0)

\* Signal 4, one entity: its text against the nouns, its label against the
\* category's 'locations' (when the category has that key)
EntityScore(entity, patterns) ==
    (IF ListIn(lower(entity.text), patterns.nouns) THEN EntityWeight ELSE 0)
    + (IF "locations" \in DOMAIN patterns
          /\ ListIn(entity.label, patterns.locations)
       THEN EntityWeight ELSE 0)

RECURSIVE EntitySignalDedup(_, _)
\* a variant that counts an entity listed several times once
EntitySignalDedup(entities, patterns) ==
    IF entities = <<>> THEN 0
    ELSE (IF \E i \in DOMAIN Tail(entities) :
                Tail(entities)[i] = Head(entities)
          THEN 0 ELSE EntityScore(Head(entities), patterns))
         + EntitySignalDedup(Tail(entities), patterns)

RECURSIVE EntitySignal(_, _)
\* Signal 4: for entity in entities
EntitySignal(entities, patterns) ==
    IF entities = <<>> THEN 0
    ELSE EntityScore(Head(entities), patterns)
         + EntitySignal(Tail(entities), patterns)

RECURSIVE ModifierScan(_, _)
ModifierScan(modifiers, text_lower) ==
    IF modifiers = <<>> THEN 0
    ELSE (IF StrIn(Head(modifiers), text_lower) THEN ModifierWeight ELSE 0)
         + ModifierScan(Tail(modifiers), text_lower)

\* Signal 5: if 'modifiers' in patterns: for modifier in modifiers
ModifierSignal(patterns, text_lower) ==
    IF "modifiers" \in DOMAIN patterns
    THEN ModifierScan(patterns.modifiers, text_lower)
    ELSE 0

RECURSIVE FallbackSignalAnyToken(_, _, _)
\* a variant that leaves the tokens out of the test
FallbackSignalAnyToken(pattern_nouns, text_lower, tokens_lower) ==
    IF pattern_nouns = <<>> THEN 0
    ELSE (IF StrIn(Head(pattern_nouns), text_lower)
          THEN FallbackWeight ELSE 0)
         + FallbackSignalAnyToken(Tail(pattern_nouns), text_lower,
                                  tokens_lower)

RECURSIVE FallbackSignal(_, _, _)
\* Bonus: for noun in pattern nouns:
\*            if noun in text_lower and noun not in tokens_lower: score += 2
FallbackSignal(pattern_nouns, text_lower, tokens_lower) ==
    IF pattern_nouns = <<>> THEN 0
    ELSE (IF StrIn(Head(pattern_nouns), text_lower)
             /\ ~ListIn(Head(pattern_nouns), tokens_lower)
          THEN FallbackWeight ELSE 0)
         + FallbackSignal(Tail(pattern_nouns), text_lower, tokens_lower)

\* the body of `for intent, patterns in self.intent_patterns.items()`
IntentScore(patterns, text_lower, tokens_lower, parsed) ==
    VerbSignal(DictGet(parsed, "actions"), patterns.verbs)
    + NounSignal(DictGet(parsed, "nouns"), patterns.nouns)
    + PhraseSignal(patterns.phrases, text_lower)
    + EntitySignal(DictGet(parsed, "entities"), patterns)
    + ModifierSignal(patterns, text_lower)
    + FallbackSignal(patterns.nouns, text_lower, tokens_lower)

\* the scores dict after the loop over the categories of a table
ScoresFrom(table, txt, parsed) ==
    LET text_lower   == lower(txt)
        tokens_lower == LowerAll(DictGet(parsed, "tokens"))
    IN  [intent \in DOMAIN table |->
            IntentScore(table[intent], text_lower, tokens_lower, parsed)]

\* the scores dict with the table as constructed
ComputeScores(txt, parsed) == ScoresFrom(intent_patterns, txt, parsed)

\* the phrase at which each category's phrase loop broke
PhraseHits(table, txt) ==
    [intent \in DOMAIN table |-> PhraseHit(table[intent].phrases, lower(txt))]

\* what list.sort(key=len, reverse=True) would leave in the table
PhrasesSortedInPlace(phrases) == SortedByLenDesc(phrases, <<>>)

\* patterns['phrases'] after sorted(patterns['phrases'], ...): sorted()
\* builds a new list and leaves its argument as it was
PhrasesAfterSorted(phrases) == phrases

\* self.intent_patterns after a call of classify_intent
PatternsAfterClassify(table) ==
    [intent \in DOMAIN table |->
        [table[intent] EXCEPT !.phrases = PhrasesAfterSorted(@)]]

\* ------------------------------------------------------------------------
\* IntentClassifier.classify_intent : decision rule and confidence
\* ------------------------------------------------------------------------

\* a confidence c is kept as the integer c * ConfDen
ConfDen == 300

\* list(scores.values()), in the dict's order
ScoreValues(sc) == [i \in DOMAIN IntentOrder |-> sc[IntentOrder[i]]]

\* a variant that looks at the first value only
FirstValue(sc) == sc[IntentOrder[1]]

\* max(scores.values())
MaxValue(sc) == CHOOSE v \in {sc[i] : i \in Intents} :
                    \A i \in Intents : sc[i] <= v

\* a variant that returns the last key whose value is the greatest
LastBestIntent(sc) ==
    LET last == CHOOSE i \in DOMAIN IntentOrder :
                    /\ \A k \in Intents : sc[k] <= sc[IntentOrder[i]]
                    /\ \A j \in (i + 1)..Len(IntentOrder) :
                           sc[IntentOrder[j]] < sc[IntentOrder[i]]
    IN  IntentOrder[last]

\* max(scores, key=scores.get): the first key, in the dict's order, whose
\* value is the greatest
BestIntent(sc) ==
    LET first == CHOOSE i \in DOMAIN IntentOrder :
                    /\ sc[IntentOrder[i]] = MaxValue(sc)
                    /\ \A j \in 1..(i - 1) : sc[IntentOrder[j]] # MaxValue(sc)
    IN  IntentOrder[first]

\* sorted_scores[1] if len(sorted_scores) > 1 else 0
SecondScore(sc) ==
    LET sorted_scores == SortedDesc(ScoreValues(sc), <<>>)
    IN  IF Len(sorted_scores) > 1 THEN sorted_scores[2] ELSE 0

\* a variant without the clamp to 1.0
BaseConfidenceUnclamped(max_score, second_score) ==
    IF second_score = 0
    THEN (max_score * ConfDen) \div 12
    ELSE (max_score * ConfDen) \div 12
         + ((max_score - second_score) * ConfDen) \div 20

\* a variant that adds the gap term whatever the second score is
BaseConfidenceGapAlways(max_score, second_score) ==
    Min((max_score * ConfDen) \div 12
        + ((max_score - second_score) * ConfDen) \div 20, ConfDen)

\* a variant that keeps the gap term alone
BaseConfidenceGapOnly(max_score, second_score) ==
    Min(((max_score - second_score) * ConfDen) \div 20, ConfDen)

\* min(max_score / 12.0, 1.0), or with the score gap / 20.0 added
BaseConfidence(max_score, second_score) ==
    IF second_score = 0
    THEN Min((max_score * ConfDen) \div 12, ConfDen)
    ELSE Min((max_score * ConfDen) \div 12
             + ((max_score - second_score) * ConfDen) \div 20, ConfDen)

\* a variant that divides by 1.2 where the code multiplies
BoostedConfidenceDivides(confidence, max_score) ==
    IF max_score >= 15 THEN Min((confidence * 10) \div 12, ConfDen)
    ELSE confidence

\* a variant that boosts from a winning score of 6
BoostedConfidenceFromSix(confidence, max_score) ==
    IF max_score >= 6 THEN Min((confidence * 12) \div 10, ConfDen)
    ELSE confidence

\* if max_score >= 15: confidence = min(confidence * 1.2, 1.0)
BoostedConfidence(confidence, max_score) ==
    IF max_score >= 15 THEN Min((confidence * 12) \div 10, ConfDen)
    ELSE confidence

\* return 'general', 0.3
GeneralResult == [intent |-> "general", confidence |-> (3 * ConfDen) \div 10]

\* everything after the loop: the pair classify_intent returns
Decide(sc) ==
    IF MaxValue(sc) = 0 THEN GeneralResult
    ELSE LET best_intent  == BestIntent(sc)
             max_score    == sc[best_intent]
             second_score == SecondScore(sc)
         IN  [intent     |-> best_intent,
              confidence |-> BoostedConfidence(
                                 BaseConfidence(max_score, second_score),
                                 max_score)]

\* ------------------------------------------------------------------------
\* ContextExtractor
\* ------------------------------------------------------------------------

\* self.constraint_keywords, a dict: iteration follows insertion order
ConstraintOrder ==
    <<"time_sensitive", "budget_conscious", "quality_focused", "convenience">>

constraint_keywords ==
    [ time_sensitive |->
        <<"urgent", "quick", "fast", "asap", "immediately", "hurry",
          "rush", "quickly", "soon", "right now">>,
      budget_conscious |->
        <<"cheap", "affordable", "budget", "save money", "economical",
          "inexpensive", "low cost", "under">>,
      quality_focused |->
        <<"best", "quality", "premium", "reliable", "durable",
          "long-term", "high quality", "top rated", "excellent">>,
      convenience |->
        <<"easy", "convenient", "simple", "hassle free", "comfortable",
          "effortless">> ]

\* Python's None
None == "None"

\* 1 when some keyword occurs, however many do
KeywordCountAny(keywords, text_lower) ==
    IF \E i \in DOMAIN keywords : StrIn(keywords[i], text_lower)
    THEN 1 ELSE 0

RECURSIVE KeywordCount(_, _)
\* sum(1 for keyword in keywords if keyword in text_lower)
KeywordCount(keywords, text_lower) ==
    IF keywords = <<>> THEN 0
    ELSE (IF StrIn(Head(keywords), text_lower) THEN 1 ELSE 0)
         + KeywordCount(Tail(keywords), text_lower)

\* concern_scores: the families of a keyword table whose score is above 0,
\* with their scores
ConcernScoresFrom(table, text_lower) ==
    LET all == [f \in DOMAIN table |-> KeywordCount(table[f], text_lower)]
    IN  [f \in {g \in DOMAIN all : all[g] > 0} |-> all[f]]

\* concern_scores with the table as constructed
ConcernScores(text_lower) == ConcernScoresFrom(constraint_keywords, text_lower)

\* the last family, in the order of the loop, whose score is the greatest
LastPrimaryConcern(concern_scores) ==
    IF DOMAIN concern_scores = {} THEN None
    ELSE LET last == CHOOSE i \in DOMAIN ConstraintOrder :
                 /\ ConstraintOrder[i] \in DOMAIN concern_scores
                 /\ \A g \in DOMAIN concern_scores :
                        concern_scores[g] <= concern_scores[ConstraintOrder[i]]
                 /\ \A j \in (i + 1)..Len(ConstraintOrder) :
                        ConstraintOrder[j] \in DOMAIN concern_scores =>
                            concern_scores[ConstraintOrder[j]]
                                < concern_scores[ConstraintOrder[i]]
         IN  ConstraintOrder[last]

\* a variant that names the first family of the table whatever the scores
PrimaryConcernFirstFamily(concern_scores) == ConstraintOrder[1]

\* max(concern_scores, key=concern_scores.get): the first family, in the
\* order the loop inserted them, whose score is the greatest
PrimaryConcern(concern_scores) ==
    IF DOMAIN concern_scores = {} THEN None
    ELSE LET first == CHOOSE i \in DOMAIN ConstraintOrder :
                 /\ ConstraintOrder[i] \in DOMAIN concern_scores
                 /\ \A g \in DOMAIN concern_scores :
                        concern_scores[g] <= concern_scores[ConstraintOrder[i]]
                 /\ \A j \in 1..(i - 1) :
                        ConstraintOrder[j] \in DOMAIN concern_scores =>
                            concern_scores[ConstraintOrder[j]]
                                < concern_scores[ConstraintOrder[i]]
         IN  ConstraintOrder[first]

\* [e for e in entities if e['label'] in labels]
WithLabel(entities, labels) ==
    SelectSeq(entities, LAMBDA e : e.label \in labels)

\* 'high' as soon as any family is triggered
UrgencyLevelAnyFamily(triggered) ==
    IF triggered # {} THEN "high" ELSE "normal"

\* urgency_level: 'normal' by default, 'high' in the time_sensitive branch
UrgencyLevel(triggered) ==
    IF "time_sensitive" \in triggered THEN "high" ELSE "normal"

\* the text of the last matching entity
LastText(matching) == matching[Len(matching)].text

\* money_entities[0]['text'], time_entities[0]['text']
FirstText(matching) == matching[1].text

\* the dict extract_constraints returns, from the concern_scores its loop
\* left and the record's entities; the key 'time_constraint' is set only
\* when a TIME or DATE entity exists
ConstraintsOf(concern_scores, parsed) ==
    LET triggered      == DOMAIN concern_scores
        money_entities == WithLabel(DictGet(parsed, "entities"), {"MONEY"})
        time_entities  == WithLabel(DictGet(parsed, "entities"),
                                    {"TIME", "DATE"})
        constraints ==
            [time_sensitive      |-> "time_sensitive" \in triggered,
             budget_conscious    |-> "budget_conscious" \in triggered,
             quality_focused     |-> "quality_focused" \in triggered,
             convenience_focused |-> "convenience" \in triggered,
             urgency_level       |-> UrgencyLevel(triggered),
             budget_amount       |-> IF money_entities # <<>>
                                     THEN FirstText(money_entities)
                                     ELSE None,
             primary_concern     |-> PrimaryConcern(concern_scores)]
    IN  IF time_entities # <<>>
        THEN [k \in DOMAIN constraints \cup {"time_constraint"} |->
                 IF k = "time_constraint" THEN FirstText(time_entities)
                 ELSE constraints[k]]
        ELSE constraints

\* ContextExtractor.extract_constraints(parsed_data, text) with a keyword
\* table
ExtractConstraintsFrom(table, parsed, txt) ==
    ConstraintsOf(ConcernScoresFrom(table, lower(txt)), parsed)

\* extract_constraints with the table as constructed
ExtractConstraints(parsed, txt) ==
    ExtractConstraintsFrom(constraint_keywords, parsed, txt)

\* ------------------------------------------------------------------------
\* ScenarioParser
\* ------------------------------------------------------------------------

\* the questions put to the analyzer
Questions == {"or Uber", "Order new cabs", "cheap quick"}

\* the tokens of a text without punctuation: its maximal runs of non-space
\* characters, each with its character offsets (start_char, end_char)
Tokenize(s) ==
    LET starts == {i \in 1..Len(s) :
                      /\ SubSeq(s, i, i) # " "
                      /\ (i = 1 \/ SubSeq(s, i - 1, i - 1) = " ")}
        EndOf(i) == CHOOSE j \in i..Len(s) :
                      /\ \A k \in i..j : SubSeq(s, k, k) # " "
                      /\ (j = Len(s) \/ SubSeq(s, j + 1, j + 1) = " ")
        RECURSIVE Build(_)
        Build(from) ==
            IF \A i \in starts : i < from THEN <<>>
            ELSE LET i == CHOOSE k \in starts :
                             k >= from /\ \A m \in starts : m >= from => k <= m
                 IN  <<[text |-> SubSeq(s, i, EndOf(i)), start |-> i - 1,
                        end |-> EndOf(i)]>> \o Build(EndOf(i) + 1)
    IN  Build(1)

\* what the loaded pipeline may make of a word: its part of speech, its
\* lemma and its entity label ("" when it is no entity)
Readings(word) ==
    CASE word = "Uber" ->
            {[pos |-> "PROPN", lemma |-> "Uber", label |-> "ORG"],
             [pos |-> "NOUN", lemma |-> "uber", label |-> ""]}
      [] word = "Order" ->
            {[pos |-> "VERB", lemma |-> "order", label |-> ""],
             [pos |-> "NOUN", lemma |-> "order", label |-> ""]}
      [] word = "cabs" ->
            {[pos |-> "NOUN", lemma |-> "cab", label |-> ""]}
      [] OTHER ->
            {[pos |-> "X", lemma |-> lower(word), label |-> ""]}

\* the docs self.nlp(text) may be: every token with one of its readings
Docs(s) ==
    LET toks == Tokenize(s)
        all  == UNION {Readings(toks[i].text) : i \in DOMAIN toks}
    IN  { [i \in DOMAIN toks |->
              [text |-> toks[i].text, start |-> toks[i].start,
               end |-> toks[i].end, pos |-> r[i].pos, lemma |-> r[i].lemma,
               label |-> r[i].label]] :
            r \in {x \in [DOMAIN toks -> all] :
                      \A i \in DOMAIN toks : x[i] \in Readings(toks[i].text)} }

\* self.nlp = spacy.load(...): a pipeline is a function of the text
Pipelines == {f \in [Questions -> UNION {Docs(q) : q \in Questions}] :
                 \A q \in Questions : f[q] \in Docs(q)}

RECURSIVE Ents(_)
\* doc.ents as the dicts of lines 33-39
Ents(doc) ==
    IF doc = <<>> THEN <<>>
    ELSE (IF Head(doc).label # ""
          THEN <<[text |-> Head(doc).text, label |-> Head(doc).label,
                  start |-> Head(doc).start, end |-> Head(doc).end]>>
          ELSE <<>>) \o Ents(Tail(doc))

RECURSIVE Pick(_, _, _)
\* [token.<field> for token in doc if token.pos_ == pos]
Pick(doc, pos, field) ==
    IF doc = <<>> THEN <<>>
    ELSE (IF Head(doc).pos = pos THEN <<Head(doc)[field]>> ELSE <<>>)
         \o Pick(Tail(doc), pos, field)

\* the dict parse builds from the doc; of its keys, 'sentiment' and
\* 'risk_score' (floats the core never reads) are left out
BuildResult(txt, doc) ==
    [raw_text |-> txt,
     tokens   |-> [i \in DOMAIN doc |-> doc[i].text],
     entities |-> Ents(doc),
     actions  |-> Pick(doc, "VERB", "lemma"),
     nouns    |-> Pick(doc, "NOUN", "text")]

\* text in self._cache
CacheHit(c, txt) == txt \in DOMAIN c

\* a variant that returns a stored record whatever its key
CachedRecordAny(c, txt) == c[CHOOSE k \in DOMAIN c : TRUE]

\* a variant that returns the record of another key when there is one
CachedRecordOther(c, txt) ==
    c[CHOOSE k \in DOMAIN c : k # txt \/ DOMAIN c = {txt}]

\* self._cache[text]
CachedRecord(c, txt) == c[txt]

\* what ScenarioParser.parse(text) returns
ParseReturn(pipeline, c, txt) ==
    IF CacheHit(c, txt) THEN CachedRecord(c, txt)
    ELSE BuildResult(txt, pipeline[txt])

\* a cache that keeps only the record stored last
ParseCacheLatestOnly(pipeline, c, txt) ==
    IF CacheHit(c, txt) THEN c
    ELSE (txt :> BuildResult(txt, pipeline[txt]))

\* one more call of self.nlp on a text
CountCall(calls, txt) ==
    [k \in DOMAIN calls \cup {txt} |->
        IF k = txt THEN (IF k \in DOMAIN calls THEN calls[k] + 1 ELSE 1)
        ELSE calls[k]]

\* a variant of parse that calls the pipeline before it looks in the cache
NlpCallsBeforeLookup(calls, c, txt) == CountCall(calls, txt)

\* the calls of self.nlp so far, per text, after ScenarioParser.parse(text):
\* doc = self.nlp(text) is reached on a miss only, and _assess_risk is
\* handed the doc, so it does not call the pipeline again
NlpCalls(calls, c, txt) ==
    IF CacheHit(c, txt) THEN calls ELSE CountCall(calls, txt)

\* a variant that stores the record key by key, 'raw_text' first
CacheStoreByKey(c, txt, record) ==
    [k \in DOMAIN c \cup {txt} |->
        IF k = txt THEN [raw_text |-> record.raw_text] ELSE c[k]]

\* self._cache[text] = result: one store of the finished dict
CacheStore(c, txt, record) ==
    [k \in DOMAIN c \cup {txt} |-> IF k = txt THEN record ELSE c[k]]

\* self._cache after ScenarioParser.parse(text)
ParseCache(pipeline, c, txt) ==
    IF CacheHit(c, txt) THEN c
    ELSE [k \in DOMAIN c \cup {txt} |->
             IF k = txt THEN BuildResult(txt, pipeline[txt]) ELSE c[k]]

\* ------------------------------------------------------------------------
\* DecisionAnalyzer.analyze_decision
\* ------------------------------------------------------------------------

\* a variant that goes by the intent alone, without the confidence test
RouteByIntentOnly(intent, confidence) ==
    IF intent \in Intents THEN "analyze_" \o intent ELSE "general_analysis"

\* the return statement of analyze_decision that is reached: the one under
\* the confidence test, an arm of the chain on the intent, or the final else
RouteBranch(intent, confidence) ==
    IF 100 * confidence < 35 * ConfDen THEN "low_confidence"
    ELSE IF intent \in {"transportation", "purchase", "food", "career",
                        "health", "relationship"}
         THEN "arm_" \o intent
         ELSE "final_else"

\* the analysis method analyze_decision returns the report of
Route(intent, confidence) ==
    IF 100 * confidence < 35 * ConfDen THEN "general_analysis"
    ELSE CASE intent = "transportation" -> "analyze_transportation"
           [] intent = "purchase"       -> "analyze_purchase"
           [] intent = "food"           -> "analyze_food"
           [] intent = "career"         -> "analyze_career"
           [] intent = "health"         -> "analyze_health"
           [] intent = "relationship"   -> "analyze_relationship"
           [] OTHER                     -> "general_analysis"

\* the report: the analysis methods read nothing but their arguments and
\* tables set at construction, so a report is kept as the method that
\* renders it and the arguments it renders
Report(intent, confidence, question, parsed, cons) ==
    [analysis |-> Route(intent, confidence), question |-> question,
     parsed |-> parsed, constraints |-> cons]
\* ------------------------------------------------------------------------
\* Bounded inputs
\* ------------------------------------------------------------------------

\* the most items (text fragments, tokens, actions, nouns, entities) in the
\* arguments of one call
MaxItems == 3

\* pieces of raw text; a text is pieces joined by single spaces
TextFragments ==
    {"or Uber", "vs uber", "fastest way to", "new", "cabs", " "}

TokenWords == {"Uber", "cabs"}

ActionWords == {"go", "Order", "take"}

NounWords == {"office", "idea"}

\* the fields of an entity the core reads ('start' and 'end' are never read)
EntityChoices ==
    { [text |-> "Office", label |-> "GPE"],
      [text |-> "office", label |-> "XYZ"],
      [text |-> "Delhi",  label |-> "XYZ"] }

RECURSIVE JoinFragments(_)
JoinFragments(frags) ==
    IF frags = <<>> THEN ""
    ELSE IF Len(frags) = 1 THEN frags[1]
         ELSE frags[1] \o " " \o JoinFragments(Tail(frags))

\* how many items each of the five lists gets
LengthSplits(n) ==
    { l \in [1..5 -> 0..n] : l[1] + l[2] + l[3] + l[4] + l[5] <= n }

\* the arguments (text, parsed_data) of a call, at most n items in all; of
\* the record ScenarioParser.parse builds, the keys the core reads
CallInputs(n) ==
    UNION { { [text   |-> JoinFragments(f),
               parsed |-> [tokens |-> t, actions |-> a, nouns |-> m,
                           entities |-> e]] :
                f \in [1..l[1] -> TextFragments],
                t \in [1..l[2] -> TokenWords],
                a \in [1..l[3] -> ActionWords],
                m \in [1..l[4] -> NounWords],
                e \in [1..l[5] -> EntityChoices] } :
            l \in LengthSplits(n) }

\* ------------------------------------------------------------------------
\* State
\* ------------------------------------------------------------------------

VARIABLES
    self_intent_patterns,      \* IntentClassifier.intent_patterns
    self_constraint_keywords,  \* ContextExtractor.constraint_keywords
    pc,           \* where the caller is: "ready" (arguments chosen), "done"
    text,         \* classify_intent's argument text
    parsed_data,  \* classify_intent's argument parsed_data
    scores,       \* the local dict scores, once the loop has run
    phrase_hit,   \* per category, the phrase at which the phrase loop broke
    result,       \* the returned pair (intent, confidence)
    prev,         \* an earlier call kept by the caller: arguments, result
    nlp,          \* ScenarioParser.nlp, the loaded pipeline
    cache,        \* ScenarioParser._cache
    constraints,  \* the dict extract_constraints returned
    concern_scores, \* extract_constraints' local dict concern_scores
    report,       \* what analyze_decision returned
    prev_report,  \* an earlier report kept by the caller, and its question
    parse_log,    \* per text parsed so far, what its first parse returned
    nlp_calls,    \* per text, how many times self.nlp was called on it
    flow,         \* the step analyze_decision is at, and the calls it made
    frames,       \* per thread, the frame of the call it is in
    cells         \* the scores dicts of the calls in progress

classifier_vars ==
    <<self_intent_patterns, text, parsed_data, scores, phrase_hit, result>>

analyzer_vars ==
    <<self_constraint_keywords, nlp, cache, constraints, concern_scores,
      report, prev_report, parse_log, nlp_calls, flow>>

thread_vars == <<frames, cells>>

vars == <<pc, classifier_vars, prev, analyzer_vars, thread_vars>>

NoResult == [intent |-> "none", confidence |-> 0]

NoScores == [intent \in Intents |-> 0]

NoHits == [intent \in Intents |-> NoPhrase]

NoCall == [text |-> "", parsed |-> <<>>, scores |-> NoScores,
           result |-> NoResult]

NoReport == [analysis |-> "none"]

NoConstraints == [primary_concern |-> None]

NoConcerns == <<>>

\* analyze_decision not entered
NoFlow == [step |-> "idle", calls |-> <<>>]

\* IntentClassifier() and ContextExtractor(): the tables as constructed
Constructed ==
    /\ self_intent_patterns = intent_patterns
    /\ self_constraint_keywords = constraint_keywords

\* a single caller
NoThreads ==
    /\ frames = <<>>
    /\ cells = <<>>

\* no analyzer: the classifier is called on its own
NoAnalyzer ==
    /\ nlp = <<>>
    /\ cache = <<>>
    /\ constraints = NoConstraints
    /\ concern_scores = NoConcerns
    /\ report = NoReport
    /\ prev_report = [question |-> "", report |-> NoReport]
    /\ parse_log = <<>>
    /\ nlp_calls = <<>>
    /\ flow = NoFlow

\* a caller about to call classify_intent with arguments of at most n items
Ready(n) ==
    /\ pc = "ready"
    /\ \E input \in CallInputs(n) :
          /\ text = input.text
          /\ parsed_data = input.parsed
    /\ scores = NoScores
    /\ phrase_hit = NoHits
    /\ result = NoResult
    /\ prev = NoCall
    /\ Constructed
    /\ NoAnalyzer
    /\ NoThreads

Init == Ready(MaxItems)

\* IntentClassifier.classify_intent(text, parsed_data)
ClassifyIntent ==
    /\ pc = "ready"
    /\ scores' = ScoresFrom(self_intent_patterns, text, parsed_data)
    /\ phrase_hit' = PhraseHits(self_intent_patterns, text)
    /\ result' = Decide(scores')
    /\ self_intent_patterns' = PatternsAfterClassify(self_intent_patterns)
    /\ pc' = "done"
    /\ UNCHANGED <<text, parsed_data, prev, analyzer_vars, thread_vars>>

Next == ClassifyIntent

Spec == Init /\ [][Next]_vars

\* ------------------------------------------------------------------------
\* Two calls, the second with one more item in its arguments
\* ------------------------------------------------------------------------

\* the arguments with one more text fragment, action or noun at the end
OneMore(txt, parsed) ==
    { [text   |-> IF txt = "" THEN f ELSE txt \o " " \o f,
       parsed |-> parsed] : f \in TextFragments }
    \cup { [text   |-> txt,
             parsed |-> [parsed EXCEPT !.actions = Append(@, a)]] :
             a \in ActionWords }
    \cup { [text   |-> txt,
             parsed |-> [parsed EXCEPT !.nouns = Append(@, m)]] :
             m \in NounWords }

\* the caller keeps the first call and calls classify_intent again
ClassifyIntentAgain ==
    /\ pc = "done"
    /\ \E input \in OneMore(text, parsed_data) :
          /\ text' = input.text
          /\ parsed_data' = input.parsed
          /\ scores' = ScoresFrom(self_intent_patterns, input.text,
                                  input.parsed)
          /\ phrase_hit' = PhraseHits(self_intent_patterns, input.text)
    /\ result' = Decide(scores')
    /\ self_intent_patterns' = PatternsAfterClassify(self_intent_patterns)
    /\ prev' = [text |-> text, parsed |-> parsed_data, scores |-> scores,
                result |-> result]
    /\ pc' = "compared"
    /\ UNCHANGED <<analyzer_vars, thread_vars>>

InitPair == Ready(MaxItems - 1)

NextPair == ClassifyIntent \/ ClassifyIntentAgain

SpecPair == InitPair /\ [][NextPair]_vars


\* ------------------------------------------------------------------------
\* The analyzer and its callers
\* ------------------------------------------------------------------------

\* DecisionAnalyzer(): a parser with a loaded pipeline and an empty cache,
\* a classifier, an extractor
InitAnalyzer ==
    /\ pc = "idle"
    /\ Constructed
    /\ text = ""
    /\ parsed_data = <<>>
    /\ scores = NoScores
    /\ phrase_hit = NoHits
    /\ result = NoResult
    /\ prev = NoCall
    /\ nlp \in Pipelines
    /\ cache = <<>>
    /\ constraints = NoConstraints
    /\ concern_scores = NoConcerns
    /\ report = NoReport
    /\ prev_report = [question |-> "", report |-> NoReport]
    /\ parse_log = <<>>
    /\ nlp_calls = <<>>
    /\ flow = NoFlow
    /\ NoThreads

\* the log of first returns after parse(q) returned a record
FirstReturns(log, q, returned) ==
    IF q \in DOMAIN log THEN log ELSE (q :> returned) @@ log

\* parsed = parser.parse(question), by a caller that classifies or extracts
\* next
Parse(q) ==
    /\ text' = q
    /\ parsed_data' = ParseReturn(nlp, cache, q)
    /\ cache' = ParseCache(nlp, cache, q)
    /\ parse_log' = FirstReturns(parse_log, q, parsed_data')
    /\ nlp_calls' = NlpCalls(nlp_calls, cache, q)
    /\ scores' = NoScores
    /\ phrase_hit' = NoHits
    /\ result' = NoResult
    /\ pc' = "ready"
    /\ UNCHANGED <<self_intent_patterns, self_constraint_keywords, prev, nlp,
                   constraints, concern_scores, report, prev_report, flow,
                   thread_vars>>

\* DecisionAnalyzer.analyze_decision(question)
AnalyzeDecision(q) ==
    /\ text' = q
    /\ parsed_data' = ParseReturn(nlp, cache, q)
    /\ cache' = ParseCache(nlp, cache, q)
    /\ parse_log' = FirstReturns(parse_log, q, parsed_data')
    /\ nlp_calls' = NlpCalls(nlp_calls, cache, q)
    /\ scores' = ScoresFrom(self_intent_patterns, q, parsed_data')
    /\ phrase_hit' = PhraseHits(self_intent_patterns, q)
    /\ result' = Decide(scores')
    /\ self_intent_patterns' = PatternsAfterClassify(self_intent_patterns)
    /\ concern_scores' = ConcernScoresFrom(self_constraint_keywords, lower(q))
    /\ constraints' = ExtractConstraintsFrom(self_constraint_keywords,
                                             parsed_data', q)
    /\ report' = Report(result'.intent, result'.confidence, q, parsed_data',
                        constraints')
    /\ pc' = "analyzed"
    /\ UNCHANGED <<self_constraint_keywords, prev, nlp, prev_report, flow,
                   thread_vars>>

\* the caller keeps what the last call returned, to compare later
KeepResult ==
    /\ pc = "done"
    /\ prev = NoCall
    /\ prev' = [text |-> text, parsed |-> parsed_data, scores |-> scores,
                result |-> result]
    /\ UNCHANGED <<pc, classifier_vars, analyzer_vars, thread_vars>>

KeepReport ==
    /\ pc = "analyzed"
    /\ prev_report.report = NoReport
    /\ prev_report' = [question |-> text, report |-> report]
    /\ UNCHANGED <<pc, classifier_vars, prev, self_constraint_keywords, nlp,
                   cache, constraints, concern_scores, report, parse_log, nlp_calls,
                   flow, thread_vars>>

\* ------------------------------------------------------------------------
\* The extractor called on its own
\* ------------------------------------------------------------------------

\* pieces of raw text that hold keywords of the four families: one in
\* capitals, one holding two keywords of a family ("quick", "quickly";
\* "quality", "high quality"), one holding a keyword inside a longer word
ConstraintFragments ==
    {"Urgent", "quickly", "cheap", "high quality", "easy", "breakfast",
     "hello"}

ConstraintEntities ==
    { [text |-> "50000 rupees", label |-> "MONEY"],
      [text |-> "10k",          label |-> "MONEY"],
      [text |-> "tomorrow",     label |-> "DATE"],
      [text |-> "5 pm",         label |-> "TIME"],
      [text |-> "Delhi",        label |-> "GPE"] }

\* the arguments (parsed_data, text) of a call, at most n items in all: a
\* record with a list of entities, or a record without the key 'entities'
ExtractInputs(n) ==
    UNION { { [text |-> JoinFragments(f), parsed |-> [entities |-> e]] :
                f \in [1..k -> ConstraintFragments],
                e \in UNION { [1..j -> ConstraintEntities] :
                              j \in 0..(n - k) } }
            \cup { [text   |-> JoinFragments(f),
                    parsed |-> [raw_text |-> JoinFragments(f)]] :
                     f \in [1..k -> ConstraintFragments] } :
            k \in 0..n }

\* a caller about to call extract_constraints
InitExtract ==
    /\ pc = "ready"
    /\ \E input \in ExtractInputs(MaxItems) :
          /\ text = input.text
          /\ parsed_data = input.parsed
    /\ scores = NoScores
    /\ phrase_hit = NoHits
    /\ result = NoResult
    /\ prev = NoCall
    /\ Constructed
    /\ NoAnalyzer
    /\ NoThreads

\* ContextExtractor.extract_constraints(parsed_data, text)
ExtractConstraintsCall ==
    /\ pc = "ready"
    /\ concern_scores' = ConcernScoresFrom(self_constraint_keywords,
                                           lower(text))
    /\ constraints' = ExtractConstraintsFrom(self_constraint_keywords,
                                             parsed_data, text)
    /\ pc' = "extracted"
    /\ UNCHANGED <<classifier_vars, prev, self_constraint_keywords, nlp, cache,
                   report, prev_report, parse_log, nlp_calls, flow, thread_vars>>

NextExtract == ExtractConstraintsCall

SpecExtract == InitExtract /\ [][NextExtract]_vars

\* ------------------------------------------------------------------------
\* The analyzer and its callers: any sequence of calls
\* ------------------------------------------------------------------------

NextAnalyzer ==
    \/ \E q \in Questions : Parse(q)
    \/ ClassifyIntent
    \/ ExtractConstraintsCall
    \/ \E q \in Questions : AnalyzeDecision(q)
    \/ KeepResult
    \/ KeepReport

SpecAnalyzer == InitAnalyzer /\ [][NextAnalyzer]_vars

\* ------------------------------------------------------------------------
\* Several threads on one classifier and one extractor
\* ------------------------------------------------------------------------

\* the number of threads
MaxThreads == 2

Threads == 1..MaxThreads

\* the arguments the threads call with
ThreadInputs ==
    { [text   |-> "or Uber",
       parsed |-> [raw_text |-> "or Uber", tokens |-> <<"or", "Uber">>,
                   entities |-> <<>>, actions |-> <<>>,
                   nouns |-> <<"Uber">>]],
      [text   |-> "cheap quick",
       parsed |-> [raw_text |-> "cheap quick",
                   tokens |-> <<"cheap", "quick">>,
                   entities |-> <<[text |-> "5 pm", label |-> "TIME"]>>,
                   actions |-> <<"buy">>, nouns |-> <<>>]] }

\* a thread that has not called yet
IdleFrame ==
    [step |-> "idle", op |-> "none", text |-> "", parsed |-> <<>>,
     index |-> 0, concern_scores |-> NoConcerns, ret |-> NoResult]

\* as if scores were a field of the classifier, one dict for all threads
ScoresCellShared(t) == CHOOSE u \in Threads : TRUE

\* where a thread keeps scores: a local of its own frame (scores = {})
ScoresCell(t) == t

\* one classifier, one extractor, no call begun
InitThreads ==
    /\ pc = "threads"
    /\ Constructed
    /\ text = ""
    /\ parsed_data = <<>>
    /\ scores = NoScores
    /\ phrase_hit = NoHits
    /\ result = NoResult
    /\ prev = NoCall
    /\ NoAnalyzer
    /\ frames = [t \in Threads |-> IdleFrame]
    /\ cells = [t \in Threads |-> NoScores]

\* thread t enters classify_intent: text_lower, scores = {}, tokens_lower
BeginClassify(t, input) ==
    /\ frames[t].step = "idle"
    /\ frames' = [frames EXCEPT ![t] =
                     [IdleFrame EXCEPT !.step = "loop", !.op = "classify",
                                       !.text = input.text,
                                       !.parsed = input.parsed]]
    /\ cells' = [cells EXCEPT ![ScoresCell(t)] = NoScores]
    /\ UNCHANGED <<pc, classifier_vars, prev, analyzer_vars>>

\* one round of the loop over the categories: scores[intent] = score
ScoreCategory(t) ==
    /\ frames[t].step = "loop"
    /\ frames[t].op = "classify"
    /\ frames[t].index < Len(IntentOrder)
    /\ LET intent == IntentOrder[frames[t].index + 1]
       IN  cells' = [cells EXCEPT ![ScoresCell(t)][intent] =
                        IntentScore(self_intent_patterns[intent],
                                    lower(frames[t].text),
                                    LowerAll(DictGet(frames[t].parsed,
                                                     "tokens")),
                                    frames[t].parsed)]
    /\ frames' = [frames EXCEPT ![t].index = @ + 1]
    /\ UNCHANGED <<pc, classifier_vars, prev, analyzer_vars>>

\* the decision rule on the scores, and the return
ReturnClassify(t) ==
    /\ frames[t].step = "loop"
    /\ frames[t].op = "classify"
    /\ frames[t].index = Len(IntentOrder)
    /\ frames' = [frames EXCEPT ![t].step = "returned",
                                ![t].ret = Decide(cells[ScoresCell(t)])]
    /\ self_intent_patterns' = PatternsAfterClassify(self_intent_patterns)
    /\ UNCHANGED <<pc, text, parsed_data, scores, phrase_hit, result, prev,
                   analyzer_vars, cells>>

\* thread t enters extract_constraints: the defaults, concern_scores = {}
BeginExtract(t, input) ==
    /\ frames[t].step = "idle"
    /\ frames' = [frames EXCEPT ![t] =
                     [IdleFrame EXCEPT !.step = "loop", !.op = "extract",
                                       !.text = input.text,
                                       !.parsed = input.parsed]]
    /\ UNCHANGED <<pc, classifier_vars, prev, analyzer_vars, cells>>

\* one round of the loop over the keyword families
CountFamily(t) ==
    /\ frames[t].step = "loop"
    /\ frames[t].op = "extract"
    /\ frames[t].index < Len(ConstraintOrder)
    /\ LET family == ConstraintOrder[frames[t].index + 1]
           score  == KeywordCount(self_constraint_keywords[family],
                                  lower(frames[t].text))
       IN  frames' = [frames EXCEPT
                         ![t].index = @ + 1,
                         ![t].concern_scores =
                             IF score > 0 THEN (family :> score) @@ @
                             ELSE @]
    /\ UNCHANGED <<pc, classifier_vars, prev, analyzer_vars, cells>>

\* primary concern, money and time entities, and the return
ReturnExtract(t) ==
    /\ frames[t].step = "loop"
    /\ frames[t].op = "extract"
    /\ frames[t].index = Len(ConstraintOrder)
    /\ frames' = [frames EXCEPT
                     ![t].step = "returned",
                     ![t].ret = ConstraintsOf(frames[t].concern_scores,
                                              frames[t].parsed)]
    /\ UNCHANGED <<pc, classifier_vars, prev, analyzer_vars, cells>>

NextThreads ==
    \E t \in Threads :
        \/ \E input \in ThreadInputs : BeginClassify(t, input)
        \/ ScoreCategory(t)
        \/ ReturnClassify(t)
        \/ \E input \in ThreadInputs : BeginExtract(t, input)
        \/ CountFamily(t)
        \/ ReturnExtract(t)

SpecThreads == InitThreads /\ [][NextThreads]_vars

\* ------------------------------------------------------------------------
\* analyze_decision, statement by statement
\* ------------------------------------------------------------------------

\* DecisionAnalyzer(), before the first analyze_decision
InitFlow ==
    /\ InitAnalyzer
    /\ pc = "idle"

\* a variant that lets a return be reached once the classification is known
MaySelectEarly(step) == step \in {"classified", "extracted"}

\* the returns of analyze_decision come after the three assignments
MaySelect(step) == step = "extracted"

\* parsed = self.parser.parse(question)
FlowParse(q) ==
    /\ flow.step \in {"idle", "returned"}
    /\ text' = q
    /\ parsed_data' = ParseReturn(nlp, cache, q)
    /\ cache' = ParseCache(nlp, cache, q)
    /\ parse_log' = FirstReturns(parse_log, q, parsed_data')
    /\ nlp_calls' = NlpCalls(nlp_calls, cache, q)
    /\ scores' = NoScores
    /\ phrase_hit' = NoHits
    /\ result' = NoResult
    /\ concern_scores' = NoConcerns
    /\ constraints' = NoConstraints
    /\ report' = NoReport
    /\ flow' = [step |-> "parsed", calls |-> <<"parse">>]
    /\ UNCHANGED <<pc, self_intent_patterns, self_constraint_keywords, prev,
                   nlp, prev_report, thread_vars>>

\* intent, confidence = self.intent_classifier.classify_intent(question,
\* parsed)
FlowClassify ==
    /\ flow.step = "parsed"
    /\ scores' = ScoresFrom(self_intent_patterns, text, parsed_data)
    /\ phrase_hit' = PhraseHits(self_intent_patterns, text)
    /\ result' = Decide(scores')
    /\ self_intent_patterns' = PatternsAfterClassify(self_intent_patterns)
    /\ flow' = [step |-> "classified",
                calls |-> Append(flow.calls, "classify_intent")]
    /\ UNCHANGED <<pc, text, parsed_data, prev, self_constraint_keywords, nlp,
                   cache, constraints, concern_scores, report, prev_report,
                   parse_log, nlp_calls, thread_vars>>

\* constraints = self.context_extractor.extract_constraints(parsed,
\* question), whatever the confidence
FlowExtract ==
    /\ flow.step = "classified"
    /\ concern_scores' = ConcernScoresFrom(self_constraint_keywords,
                                           lower(text))
    /\ constraints' = ExtractConstraintsFrom(self_constraint_keywords,
                                             parsed_data, text)
    /\ flow' = [step |-> "extracted",
                calls |-> Append(flow.calls, "extract_constraints")]
    /\ UNCHANGED <<pc, classifier_vars, prev, self_constraint_keywords, nlp,
                   cache, report, prev_report, parse_log, nlp_calls, thread_vars>>

\* the confidence test and the chain on the intent: one analysis method is
\* called and its report returned
FlowSelect ==
    /\ MaySelect(flow.step)
    /\ report' = Report(result.intent, result.confidence, text, parsed_data,
                        constraints)
    /\ flow' = [step |-> "returned",
                calls |-> Append(flow.calls,
                                 Route(result.intent, result.confidence))]
    /\ UNCHANGED <<pc, classifier_vars, prev, self_constraint_keywords, nlp,
                   cache, constraints, concern_scores, prev_report,
                   parse_log, nlp_calls, thread_vars>>

NextFlow ==
    \/ \E q \in Questions : FlowParse(q)
    \/ FlowClassify
    \/ FlowExtract
    \/ FlowSelect

SpecFlow == InitFlow /\ [][NextFlow]_vars
\* ------------------------------------------------------------------------
\* Properties of one call of classify_intent
\* ------------------------------------------------------------------------

Called == pc = "done"

\* the elements of a list
Range(lst) == {lst[i] : i \in DOMAIN lst}

\* the greatest score, and the second entry of the scores in descending
\* order: the greatest again when two categories share it, else the
\* greatest of the others
TopScore == CHOOSE v \in Range(ScoreValues(scores)) :
                \A i \in Intents : scores[i] <= v

RunnerUpScore ==
    IF Cardinality({i \in Intents : scores[i] = TopScore}) > 1
    THEN TopScore
    ELSE CHOOSE v \in {scores[i] : i \in Intents \ {result.intent}} :
             \A i \in Intents \ {result.intent} : scores[i] <= v

\* C1: the confidence classify_intent returns is never negative and never
\* exceeds 1.0, whatever the category scores are.
C1_ConfidenceBounds ==
    Called => /\ 0 <= result.confidence
              /\ result.confidence <= ConfDen

\* a call whose winning score alone is worth more than 1.0 (score / 12 > 1)
\* and another where the gap term lifts the sum over 1.0
C1_Witness ==
    /\ Called
    /\ TopScore > 12
    /\ TopScore < 15
    /\ result.confidence = ConfDen

\* the text has no character but spaces
IsBlank(s) == \A i \in 1..Len(s) : SubSeq(s, i, i) = " "

\* C2: the result is 'general' if and only if every category's total score
\* is 0, and then the confidence is exactly 0.3; when some category scores
\* above 0 the result is one of the six categories; an empty or
\* whitespace-only text whose record has no action, noun or entity gives
\* 'general' with 0.3.
C2_GeneralIffNoSignal ==
    Called =>
        /\ result.intent = "general" <=> \A i \in Intents : scores[i] = 0
        /\ result.intent = "general" => 10 * result.confidence = 3 * ConfDen
        /\ (\E i \in Intents : scores[i] > 0) =>
               result.intent \in {"transportation", "purchase", "food",
                                  "career", "health", "relationship"}
        /\ ( /\ IsBlank(text)
             /\ parsed_data.actions = <<>>
             /\ parsed_data.nouns = <<>>
             /\ parsed_data.entities = <<>> ) =>
               /\ result.intent = "general"
               /\ 10 * result.confidence = 3 * ConfDen

\* a whitespace-only text with tokens: no signal, the general result
C2_Witness ==
    /\ Called
    /\ text # ""
    /\ IsBlank(text)
    /\ parsed_data.tokens # <<>>
    /\ result.intent = "general"

\* the order in which the six categories are defined
DefinedOrder ==
    <<"transportation", "purchase", "food", "career", "health",
      "relationship">>

Position(intent) == CHOOSE k \in DOMAIN DefinedOrder : DefinedOrder[k] = intent

\* C3: when some category scores above 0, the result is a category with the
\* highest score, and of the categories sharing that score the one defined
\* first; the winner is a function of the scores and the order alone, so
\* every run with the same scores returns it.
C3_FirstHighestWins ==
    (Called /\ \E i \in Intents : scores[i] > 0) =>
        /\ result.intent \in Range(DefinedOrder)
        /\ \A i \in Intents : scores[i] <= scores[result.intent]
        /\ \A i \in Intents :
               scores[i] = scores[result.intent] =>
                   Position(result.intent) <= Position(i)

\* two categories, neither of them the first defined, share the top score
C3_Witness ==
    /\ Called
    /\ TopScore > 0
    /\ scores["transportation"] < TopScore
    /\ Cardinality({i \in Intents : scores[i] = TopScore}) > 1

\* min(mx/12, 1) when snd = 0, min(mx/12 + (mx - snd)/20, 1) otherwise,
\* as a numerator over ConfDen
ClaimedBase(mx, snd) ==
    Min(ConfDen * (5 * mx + (IF snd = 0 THEN 0 ELSE 3 * (mx - snd))),
        ConfDen * 60) \div 60

\* C4: for a non-general result the confidence is min(max/12, 1) when the
\* second-highest score is 0 and min(max/12 + (max - second)/20, 1)
\* otherwise, multiplied by 1.2 and clamped to 1.0 when max >= 15.
C4_ConfidenceFormula ==
    (Called /\ result.intent # "general") =>
        LET base == ClaimedBase(TopScore, RunnerUpScore)
        IN  result.confidence =
                IF TopScore >= 15 THEN Min(12 * base, 10 * ConfDen) \div 10
                ELSE base

\* a runner-up that scored, and a sum below the clamp
C4_Witness ==
    /\ Called
    /\ result.intent # "general"
    /\ RunnerUpScore > 0
    /\ RunnerUpScore < TopScore
    /\ result.confidence < ConfDen

\* text.lower(), and the lowercased tokens
TextLower == lower(text)

TokensLower == {lower(t) : t \in Range(parsed_data.tokens)}

\* the six signals of a category, each stated on the arguments of the call
ClaimedVerb(c) ==
    4 * Cardinality({i \in DOMAIN parsed_data.actions :
            lower(parsed_data.actions[i]) \in Range(intent_patterns[c].verbs)})

ClaimedNoun(c) ==
    3 * Cardinality({i \in DOMAIN parsed_data.nouns :
            lower(parsed_data.nouns[i]) \in Range(intent_patterns[c].nouns)})

ClaimedPhrase(c) ==
    LET txt == TextLower IN
    IF \E p \in Range(intent_patterns[c].phrases) : StrIn(p, txt)
    THEN 6 ELSE 0

ClaimedEntity(c) ==
    3 * Cardinality({i \in DOMAIN parsed_data.entities :
            lower(parsed_data.entities[i].text)
                \in Range(intent_patterns[c].nouns)})
    + 3 * Cardinality({i \in DOMAIN parsed_data.entities :
            /\ "locations" \in DOMAIN intent_patterns[c]
            /\ parsed_data.entities[i].label
                   \in Range(intent_patterns[c].locations)})

ClaimedModifier(c) ==
    IF "modifiers" \in DOMAIN intent_patterns[c]
    THEN LET txt == TextLower
         IN  2 * Cardinality({m \in Range(intent_patterns[c].modifiers) :
                     StrIn(m, txt)})
    ELSE 0

ClaimedFallback(c) ==
    LET txt  == TextLower
        toks == TokensLower
    IN  2 * Cardinality({n \in Range(intent_patterns[c].nouns) :
                StrIn(n, txt) /\ n \notin toks})

\* C8: each category's total score is the sum of the six signals: 4 per
\* matching action and 3 per matching noun (with multiplicity), 6 if any
\* phrase occurs, 3 per entity text in the noun list plus 3 per entity label
\* in the allowlist, 2 per modifier word occurring, 2 per noun occurring in
\* the text but absent from the lowercased tokens.
C8_ScoreIsSumOfSignals ==
    Called =>
        \A c \in Intents :
            scores[c] = ClaimedVerb(c) + ClaimedNoun(c) + ClaimedPhrase(c)
                        + ClaimedEntity(c) + ClaimedModifier(c)
                        + ClaimedFallback(c)

\* the same action twice counts twice, beside a fallback noun
C8_Witness ==
    /\ Called
    /\ parsed_data.actions = <<"go", "go">>
    /\ ClaimedVerb("transportation") = 8
    /\ ClaimedFallback("transportation") > 0
    /\ scores["transportation"] > 8

\* C9: a category's phrase signal is 6 if at least one of its phrases occurs
\* in the lowercased text and 0 otherwise, however many occur, and the
\* phrase scan stops at an occurring phrase than which no longer phrase of
\* the category occurs.
C9_OnePhraseBonus ==
    Called =>
        \A c \in Intents :
            LET txt       == TextLower
                occurring == {p \in Range(intent_patterns[c].phrases) :
                                 StrIn(p, txt)}
                bonus == scores[c] - ClaimedVerb(c) - ClaimedNoun(c)
                         - ClaimedEntity(c) - ClaimedModifier(c)
                         - ClaimedFallback(c)
            IN  /\ bonus = IF occurring # {} THEN 6 ELSE 0
                /\ occurring = {} => phrase_hit[c] = NoPhrase
                /\ occurring # {} =>
                       /\ phrase_hit[c] \in occurring
                       /\ \A p \in occurring : Len(p) <= Len(phrase_hit[c])

\* both 'vs uber' and 'or uber' occur, and a longer phrase listed after a
\* shorter one that occurs too
C9_Witness ==
    /\ Called
    /\ StrIn("vs uber", lower(text))
    /\ StrIn("or uber", lower(text))
    /\ StrIn("fastest way", lower(text))
    /\ phrase_hit["transportation"] = "fastest way"

\* the entity labels of the annotation provider (spaCy's English models)
KnownLabels ==
    {"PERSON", "NORP", "FAC", "ORG", "GPE", "LOC", "PRODUCT", "EVENT",
     "WORK_OF_ART", "LAW", "LANGUAGE", "DATE", "TIME", "PERCENT", "MONEY",
     "QUANTITY", "ORDINAL", "CARDINAL"}

UnknownLabelled(entities) ==
    {i \in DOMAIN entities : entities[i].label \notin KnownLabels}

\* parsed_data without the entities whose label is outside the taxonomy
WithoutUnknownLabelled ==
    [parsed_data EXCEPT !.entities =
        SelectSeq(parsed_data.entities, LAMBDA e : e.label \in KnownLabels)]

\* C10 as stated: an entity whose label is outside the known taxonomy
\* contributes no signal to any category's score.
C10_UnknownLabelNoSignal ==
    Called => scores = ComputeScores(text, WithoutUnknownLabelled)

\* C10, amended: the label of an entity outside the known taxonomy
\* contributes no signal; the entity adds only 3 to each category whose
\* noun list contains its lowercased text.
C10_UnknownLabelOnlyText ==
    Called =>
        LET without == ComputeScores(text, WithoutUnknownLabelled)
        IN  \A c \in Intents :
            scores[c] =
                without[c]
                + 3 * Cardinality(
                      {i \in UnknownLabelled(parsed_data.entities) :
                          lower(parsed_data.entities[i].text)
                              \in Range(intent_patterns[c].nouns)})

\* an entity with an unknown label and a text no category lists, beside
\* one with an unknown label and a listed text
C10_Witness ==
    /\ Called
    /\ \E i \in UnknownLabelled(parsed_data.entities) :
           parsed_data.entities[i].text = "Delhi"
    /\ \E i \in UnknownLabelled(parsed_data.entities) :
           parsed_data.entities[i].text = "office"
    /\ scores["career"] = 3

\* ------------------------------------------------------------------------
\* Properties of two calls
\* ------------------------------------------------------------------------

Compared == pc = "compared"

\* the greatest of a dict of scores, and the next-highest
TopOf(sc) == CHOOSE v \in {sc[i] : i \in Intents} :
                 \A i \in Intents : sc[i] <= v

SecondOf(sc) ==
    IF Cardinality({i \in Intents : sc[i] = TopOf(sc)}) > 1 THEN TopOf(sc)
    ELSE CHOOSE v \in {sc[i] : i \in Intents} \ {TopOf(sc)} :
             \A i \in Intents : sc[i] # TopOf(sc) => sc[i] <= v

\* C6: one more verb, noun or phrase signal that leaves every other
\* category's score as it was never decreases the category's score, and
\* never decreases the confidence if the category wins before and after.
C6_Monotonicity ==
    Compared =>
        \A c \in Intents :
            (\A o \in Intents \ {c} : scores[o] = prev.scores[o]) =>
                /\ scores[c] >= prev.scores[c]
                /\ (prev.result.intent = c /\ result.intent = c) =>
                       result.confidence >= prev.result.confidence

\* the winner gains a verb signal and crosses the boost threshold
C6_Witness ==
    /\ Compared
    /\ Len(parsed_data.actions) > Len(prev.parsed.actions)
    /\ prev.result.intent = "transportation"
    /\ result.intent = "transportation"
    /\ prev.scores["transportation"] < 15
    /\ scores["transportation"] >= 15
    /\ \A o \in Intents \ {"transportation"} : scores[o] = prev.scores[o]

\* C7: for a fixed winning score, a larger separation from the runner-up
\* never yields a lower confidence than a smaller one, a runner-up score
\* of 0 (the largest separation) included.
C7_SeparationRewarded ==
    (Compared /\ prev.result.intent # "general"
              /\ TopOf(scores) = TopOf(prev.scores)) =>
        /\ SecondOf(scores) >= SecondOf(prev.scores) =>
               result.confidence <= prev.result.confidence
        /\ SecondOf(scores) <= SecondOf(prev.scores) =>
               result.confidence >= prev.result.confidence

\* ------------------------------------------------------------------------
\* Properties of the analyzer
\* ------------------------------------------------------------------------

\* C5: a classify_intent call with the text and the record of a call kept
\* earlier returns the pair kept, whatever was called before or in between,
\* and analyze_decision on the question of a report kept earlier returns
\* that report.
C5_Deterministic ==
    /\ ( /\ pc = "done"
         /\ prev.result # NoResult
         /\ prev.text = text
         /\ prev.parsed = parsed_data ) =>
            /\ result = prev.result
            /\ scores = prev.scores
    /\ ( /\ pc = "analyzed"
         /\ prev_report.report # NoReport
         /\ prev_report.question = text ) =>
            report = prev_report.report

\* the question of the kept report is analyzed again once other questions
\* are in the cache and a classification has been kept
C5_Witness ==
    /\ pc = "analyzed"
    /\ prev_report.report # NoReport
    /\ prev_report.question = text
    /\ prev.result # NoResult
    /\ prev.text # text
    /\ Cardinality(DOMAIN cache) > 1

\* ------------------------------------------------------------------------
\* Properties of extract_constraints
\* ------------------------------------------------------------------------

Extracted == pc = "extracted"

Families == {"time_sensitive", "budget_conscious", "quality_focused",
             "convenience"}

\* the flag of a family in the returned dict
FlagOf(family) ==
    IF family = "convenience" THEN "convenience_focused" ELSE family

\* the keywords of a family that occur in the lowercased text, by position
\* in the family's list
Occurring(family) ==
    LET text_lower == TextLower
    IN  { i \in DOMAIN constraint_keywords[family] :
            StrIn(constraint_keywords[family][i], text_lower) }

Hits(family) == Cardinality(Occurring(family))

\* the entities of the record passed in
GivenEntities ==
    IF "entities" \in DOMAIN parsed_data THEN parsed_data.entities ELSE <<>>

\* the positions of the entities with one of the labels
Labelled(labels) ==
    { i \in DOMAIN GivenEntities : GivenEntities[i].label \in labels }

\* the least position in a non-empty set of positions
Least(positions) == CHOOSE i \in positions : \A j \in positions : i <= j

\* C11: a family's flag is true exactly when at least one of its keywords
\* occurs in the lowercased text, and the score recorded for a triggered
\* family is the number of its keywords that occur.
C11_FlagIffKeyword ==
    Extracted =>
        \A family \in Families :
            LET hits == Hits(family)
            IN  /\ constraints[FlagOf(family)] = (hits >= 1)
                /\ (family \in DOMAIN concern_scores) = (hits >= 1)
                /\ family \in DOMAIN concern_scores =>
                       concern_scores[family] = hits

\* three keywords of one family occur, one of them inside a longer word,
\* and another family has none
C11_Witness ==
    /\ Extracted
    /\ text = "quickly breakfast"
    /\ concern_scores["time_sensitive"] = 3
    /\ constraints.time_sensitive
    /\ ~constraints.budget_conscious

\* C12: urgency_level is 'high' exactly when time_sensitive is true and
\* 'normal' exactly when it is false, whichever other families trigger.
C12_UrgencyIffTimeSensitive ==
    Extracted =>
        /\ (constraints.urgency_level = "high") = constraints.time_sensitive
        /\ (constraints.urgency_level = "normal")
               = ~constraints.time_sensitive

\* the other three families trigger and the urgency stays normal
C12_Witness ==
    /\ Extracted
    /\ constraints.budget_conscious
    /\ constraints.quality_focused
    /\ constraints.convenience_focused
    /\ ~constraints.time_sensitive
    /\ constraints.urgency_level = "normal"

\* C13: primary_concern is a triggered family with the greatest number of
\* occurring keywords, and among the families that share that number the
\* earliest in the order of the keyword table; None when none triggered.
C13_PrimaryConcernFirstMax ==
    Extracted =>
        LET hits == [family \in Families |-> Hits(family)]
        IN  IF \A family \in Families : hits[family] = 0
            THEN constraints.primary_concern = None
            ELSE \E i \in DOMAIN ConstraintOrder :
                    /\ constraints.primary_concern = ConstraintOrder[i]
                    /\ hits[ConstraintOrder[i]] >= 1
                    /\ \A family \in Families :
                           hits[family] <= hits[ConstraintOrder[i]]
                    /\ \A j \in 1..(i - 1) :
                           hits[ConstraintOrder[j]] < hits[ConstraintOrder[i]]

\* two families tie, the later of them named first in the text
C13_Witness ==
    /\ Extracted
    /\ text = "easy cheap"
    /\ Hits("budget_conscious") = Hits("convenience")
    /\ constraints.primary_concern = "budget_conscious"

\* C14: with money entities in the record budget_amount is the text of the
\* first of them in entity order, and with time or date entities the
\* temporal constraint is the text of the first of those.
C14_FirstEntityWins ==
    Extracted =>
        /\ Labelled({"MONEY"}) # {} =>
               constraints.budget_amount
                   = GivenEntities[Least(Labelled({"MONEY"}))].text
        /\ Labelled({"TIME", "DATE"}) # {} =>
               /\ "time_constraint" \in DOMAIN constraints
               /\ constraints.time_constraint
                      = GivenEntities[Least(Labelled({"TIME", "DATE"}))].text

\* two money entities of different texts after an entity of another label
C14_Witness ==
    /\ Extracted
    /\ Cardinality(Labelled({"MONEY"})) = 2
    /\ Least(Labelled({"MONEY"})) = 2
    /\ GivenEntities[2].text # GivenEntities[3].text
    /\ constraints.budget_amount = GivenEntities[2].text

\* C15: with no keyword in the text and no money, time or date entity in
\* the record, the result has the four flags false, urgency_level 'normal',
\* and budget_amount, primary_concern and the temporal entity present with
\* the value None.
C15_DefaultsOnNoSignal ==
    ( /\ Extracted
      /\ \A family \in Families : Hits(family) = 0
      /\ Labelled({"MONEY", "TIME", "DATE"}) = {} ) =>
        /\ \A family \in Families : constraints[FlagOf(family)] = FALSE
        /\ constraints.urgency_level = "normal"
        /\ constraints.budget_amount = None
        /\ constraints.primary_concern = None
        /\ "time_constraint" \in DOMAIN constraints
        /\ constraints.time_constraint = None

\* ------------------------------------------------------------------------
\* Frame of the calls
\* ------------------------------------------------------------------------

\* C16: after any sequence of parse, classify_intent, extract_constraints
\* and analyze_decision calls the classifier's table (the order of every
\* phrase list included) and the extractor's table are as constructed, every
\* cached record is the one parse built, and the record last passed in is
\* still the cached one.
C16_NothingMutated ==
    /\ self_intent_patterns = intent_patterns
    /\ self_constraint_keywords = constraint_keywords
    /\ \A q \in DOMAIN cache : cache[q] = BuildResult(q, nlp[q])
    /\ pc \in {"done", "extracted", "analyzed"} => parsed_data = cache[text]

\* a classification that scanned a phrase list kept out of length order,
\* after an extraction that triggered, with several records cached
C16_Witness ==
    /\ pc = "done"
    /\ result.intent = "transportation"
    /\ phrase_hit["transportation"] # NoPhrase
    /\ SortedByLenDesc(intent_patterns["transportation"].phrases, <<>>)
           # intent_patterns["transportation"].phrases
    /\ constraints # NoConstraints
    /\ constraints.time_sensitive
    /\ Cardinality(DOMAIN cache) > 1

\* ------------------------------------------------------------------------
\* Concurrent calls
\* ------------------------------------------------------------------------

\* what classify_intent and extract_constraints return when called alone,
\* for each of the threads' arguments
AloneClassify ==
    [input \in ThreadInputs |->
        Decide(ComputeScores(input.text, input.parsed))]

AloneExtract ==
    [input \in ThreadInputs |-> ExtractConstraints(input.parsed, input.text)]

\* what the call of a frame returns when it runs alone
Alone(frame) ==
    LET input == [text |-> frame.text, parsed |-> frame.parsed]
    IN  IF frame.op = "classify" THEN AloneClassify[input]
        ELSE AloneExtract[input]

\* C17: in every interleaving of the threads' classify_intent and
\* extract_constraints calls on the shared classifier and extractor, a call
\* that has returned has returned what it returns when run alone on its
\* arguments.
C17_InterleavingSafe ==
    pc = "threads" =>
        \A t \in Threads :
            frames[t].step = "returned" => frames[t].ret = Alone(frames[t])

\* a classify_intent call has returned while another thread is in the
\* middle of the loop of a classify_intent call on another text
C17_Witness ==
    /\ pc = "threads"
    /\ \E t, u \in Threads :
          /\ frames[t].op = "classify"
          /\ frames[t].step = "returned"
          /\ frames[t].ret.intent = "transportation"
          /\ frames[u].op = "classify"
          /\ frames[u].step = "loop"
          /\ frames[u].index = 3
          /\ frames[u].text # frames[t].text

\* ------------------------------------------------------------------------
\* The parse cache
\* ------------------------------------------------------------------------

\* C18: whatever parse calls were made before, on this text or on others,
\* the record parse returned for a text equals the record the first parse
\* of that text returned.
C18_ParseSameAsFirst ==
    pc \in {"ready", "done", "extracted", "analyzed"} =>
        /\ text \in DOMAIN parse_log
        /\ parsed_data = parse_log[text]

\* a text is parsed again after a call on it was kept, with the other
\* texts parsed too
C18_Witness ==
    /\ pc = "ready"
    /\ prev.result # NoResult
    /\ prev.text = text
    /\ prev.parsed = parsed_data
    /\ Cardinality(DOMAIN parse_log) = Cardinality(Questions)

\* C19: the keys of the cache are exactly the texts parsed so far, each
\* with the record its first parse stored: no key is dropped and no record
\* replaced.
C19_NoEviction ==
    /\ DOMAIN cache = DOMAIN parse_log
    /\ \A q \in DOMAIN parse_log : cache[q] = parse_log[q]

\* every text has been parsed, the first of them again at the end
C19_Witness ==
    /\ pc = "analyzed"
    /\ DOMAIN cache = Questions
    /\ prev_report.report # NoReport
    /\ prev_report.question = text
    /\ prev.result # NoResult
    /\ prev.text = text

\* ------------------------------------------------------------------------
\* Control flow of analyze_decision
\* ------------------------------------------------------------------------

\* the confidence is at least the threshold 0.35
ClearsThreshold == 100 * result.confidence >= 35 * ConfDen

\* the analysis methods
Renderers ==
    {"general_analysis", "analyze_transportation", "analyze_purchase",
     "analyze_food", "analyze_career", "analyze_health",
     "analyze_relationship"}

\* C20: analyze_decision calls parse first and classify_intent second; when
\* the confidence clears the threshold extract_constraints has been called
\* before the report is selected; a report exists only once the record, the
\* pair (category, confidence) and the constraints all exist, and it is the
\* last thing the call produces.
C20_ControlFlow ==
    /\ Len(flow.calls) >= 1 => flow.calls[1] = "parse"
    /\ Len(flow.calls) >= 2 => flow.calls[2] = "classify_intent"
    /\ \A i \in DOMAIN flow.calls :
          flow.calls[i] \in Renderers =>
              /\ i = Len(flow.calls)
              /\ ClearsThreshold =>
                     \E j \in 1..(i - 1) :
                         flow.calls[j] = "extract_constraints"
    /\ report # NoReport =>
          /\ parsed_data # <<>>
          /\ result # NoResult
          /\ constraints # NoConstraints
          /\ flow.calls[Len(flow.calls)] \in Renderers

\* a report selected with a confidence above the threshold
C20_Witness ==
    /\ flow.step = "returned"
    /\ ClearsThreshold
    /\ report.analysis = "analyze_transportation"
    /\ flow.calls = <<"parse", "classify_intent", "extract_constraints",
                      "analyze_transportation">>

\* ------------------------------------------------------------------------
\* Further properties of one call of classify_intent
\* ------------------------------------------------------------------------

\* C21: the confidence classify_intent returns is above 0, for 'general'
\* and for each of the six categories.
C21_ConfidencePositive ==
    Called => result.confidence > 0

\* two categories share the winning score, so the gap term is 0 and the
\* confidence is the winning score over 12 alone
C21_Witness ==
    /\ Called
    /\ result.intent # "general"
    /\ RunnerUpScore = TopScore
    /\ result.confidence > 0
    /\ result.confidence < ConfDen

\* C24: a winning score of 12 or more gives the confidence 1.0, and the
\* value returned is the one computed before the boost step: the step
\* 'times 1.2 when the winning score is 15 or more' changes nothing.
C24_BoostChangesNothing ==
    (Called /\ result.intent # "general") =>
        /\ TopScore >= 12 => result.confidence = ConfDen
        /\ result.confidence = BaseConfidence(TopScore, RunnerUpScore)

\* a call where the boost step applies, with a second category scoring
C24_Witness ==
    /\ Called
    /\ TopScore >= 15
    /\ RunnerUpScore > 0
    /\ RunnerUpScore < TopScore
    /\ result.confidence = ConfDen

\* the scores of the same call on a record whose entity list is emptied
ScoresWithoutEntities ==
    ComputeScores(text, [parsed_data EXCEPT !.entities = <<>>])

\* the entities of the call, by position, whose lowercased text is one of
\* the category's nouns
EntityTextMatches(c) ==
    {i \in DOMAIN parsed_data.entities :
        lower(parsed_data.entities[i].text)
            \in Range(intent_patterns[c].nouns)}

\* the entities of the call, by position, whose label is in the category's
\* allowlist
EntityLabelMatches(c) ==
    {i \in DOMAIN parsed_data.entities :
        /\ "locations" \in DOMAIN intent_patterns[c]
        /\ parsed_data.entities[i].label
               \in Range(intent_patterns[c].locations)}

\* C25: entity evidence is additive and counted per entity of the list:
\* what the entities add to a category, on top of the other five signals of
\* the call (the phrase signal as the scan of the call found it), is 3 for
\* every entity whose lowercased text is in its noun list plus 3 for every
\* entity whose label is in its allowlist (6 for an entity matching both, 3
\* in every other category that lists its text), and n equal entities add n
\* times.
C25_EntityEvidenceAdditive ==
    Called =>
        LET text_lower   == TextLower
            tokens_lower == LowerAll(parsed_data.tokens)
        IN  \A c \in Intents :
                scores[c] =
                    VerbSignal(parsed_data.actions, intent_patterns[c].verbs)
                    + NounSignal(parsed_data.nouns, intent_patterns[c].nouns)
                    + (IF phrase_hit[c] # NoPhrase THEN PhraseWeight ELSE 0)
                    + ModifierSignal(intent_patterns[c], text_lower)
                    + FallbackSignal(intent_patterns[c].nouns, text_lower,
                                     tokens_lower)
                    + EntityWeight * Cardinality(EntityTextMatches(c))
                    + EntityWeight * Cardinality(EntityLabelMatches(c))

\* the same entity listed twice, text in the noun lists of two categories
\* and label in the allowlist of the first: 12 for the first, 6 for the other
C25_Witness ==
    /\ Called
    /\ Len(parsed_data.entities) >= 2
    /\ parsed_data.entities[1] = parsed_data.entities[2]
    /\ {1, 2} \subseteq EntityTextMatches("transportation")
    /\ {1, 2} \subseteq EntityLabelMatches("transportation")
    /\ {1, 2} \subseteq EntityTextMatches("career")
    /\ scores["transportation"] >= ScoresWithoutEntities["transportation"] + 12
    /\ scores["career"] = ScoresWithoutEntities["career"] + 6

\* the nouns of a category that occur in the lowercased text of the call
\* and are no lowercased token of the call
FallbackNouns(c) ==
    LET txt  == TextLower
        toks == TokensLower
    IN  {n \in Range(intent_patterns[c].nouns) : StrIn(n, txt) /\ n \notin toks}

\* the score of a category in the same call when every noun of the category
\* is among the lowercased tokens
ScoreAllTokens(c) ==
    IntentScore(intent_patterns[c], lower(text), intent_patterns[c].nouns,
                parsed_data)

\* C26: on top of the other five signals of the call, the raw-text fallback
\* adds 2 for a category noun only when the noun is a substring of the
\* lowercased text and equals no lowercased token; a noun that is a token
\* earns nothing, whatever the record's noun list.
C26_FallbackOnlyOffTokens ==
    Called =>
        LET text_lower == TextLower
            toks       == TokensLower
        IN  \A c \in Intents :
                scores[c] =
                    VerbSignal(parsed_data.actions, intent_patterns[c].verbs)
                    + NounSignal(parsed_data.nouns, intent_patterns[c].nouns)
                    + (IF phrase_hit[c] # NoPhrase THEN PhraseWeight ELSE 0)
                    + EntitySignal(parsed_data.entities, intent_patterns[c])
                    + ModifierSignal(intent_patterns[c], text_lower)
                    + FallbackWeight
                      * Cardinality({n \in Range(intent_patterns[c].nouns) :
                                        StrIn(n, text_lower) /\ n \notin toks})

\* 'uber' occurs in the text and is a token, so it earns nothing, while
\* another noun of the category occurs in the text only and earns 2
C26_Witness ==
    /\ Called
    /\ StrIn("uber", TextLower)
    /\ "uber" \in TokensLower
    /\ "uber" \notin FallbackNouns("transportation")
    /\ FallbackNouns("transportation") # {}
    /\ scores["transportation"] > ScoreAllTokens("transportation")

\* ------------------------------------------------------------------------
\* A further property of extract_constraints
\* ------------------------------------------------------------------------

\* C27: in every result of extract_constraints, primary_concern is None
\* exactly when the four flags are all false; otherwise it names one of the
\* four families and the flag of that family is true.
C27_PrimaryConcernMatchesFlags ==
    Extracted =>
        /\ (constraints.primary_concern = None)
               = (\A family \in Families : ~constraints[FlagOf(family)])
        /\ constraints.primary_concern # None =>
               /\ constraints.primary_concern \in Families
               /\ constraints[FlagOf(constraints.primary_concern)]

\* two families trigger and the one named is not the first of the table;
\* its flag is true and the flag of an untriggered family is false
C27_Witness ==
    /\ Extracted
    /\ constraints.primary_concern = "quality_focused"
    /\ constraints.quality_focused
    /\ constraints.budget_conscious
    /\ ~constraints.time_sensitive

\* ------------------------------------------------------------------------
\* The example question, under every annotation of its words
\* ------------------------------------------------------------------------

ExampleText == "Should I take the bus or Uber to work?"

\* the words of the text, with the final mark as a token of its own or left
\* out
ExampleTokens ==
    { <<"Should", "I", "take", "the", "bus", "or", "Uber", "to", "work", "?">>,
      <<"Should", "I", "take", "the", "bus", "or", "Uber", "to", "work">> }

\* the words an annotation may read as a verb, as a noun or as neither;
\* 'bus' is a noun in every annotation
ExampleWords == <<"take", "bus", "Uber", "work">>

ExampleReadings ==
    { r \in [DOMAIN ExampleWords -> {"VERB", "NOUN", "X"}] : r[2] = "NOUN" }

\* the words with a given reading, in the order of the text
RECURSIVE ExampleRead(_, _, _)
ExampleRead(r, reading, i) ==
    IF i > Len(ExampleWords) THEN <<>>
    ELSE (IF r[i] = reading THEN <<ExampleWords[i]>> ELSE <<>>)
         \o ExampleRead(r, reading, i + 1)

\* the entities an annotation may find in the text
ExampleEntities ==
    { <<>>,
      << [text |-> "Uber", label |-> "ORG"] >>,
      << [text |-> "Uber", label |-> "GPE"] >>,
      << [text |-> "work", label |-> "GPE"] >>,
      << [text |-> "Uber", label |-> "ORG"], [text |-> "work", label |-> "GPE"] >>,
      << [text |-> "Uber", label |-> "PERSON"] >> }

ExampleInputs ==
    { [text   |-> ExampleText,
       parsed |-> [tokens   |-> t,
                   actions  |-> LowerAll(ExampleRead(r, "VERB", 1)),
                   nouns    |-> ExampleRead(r, "NOUN", 1),
                   entities |-> e]] :
        t \in ExampleTokens, r \in ExampleReadings, e \in ExampleEntities }

InitExample ==
    /\ pc = "ready"
    /\ \E input \in ExampleInputs :
          /\ text = input.text
          /\ parsed_data = input.parsed
    /\ scores = NoScores
    /\ phrase_hit = NoHits
    /\ result = NoResult
    /\ prev = NoCall
    /\ Constructed
    /\ NoAnalyzer
    /\ NoThreads

NextExample == ClassifyIntent

SpecExample == InitExample /\ [][NextExample]_vars

\* C22: for 'Should I take the bus or Uber to work?', under any annotation
\* whose tokens are the words of the text and whose nouns include 'bus',
\* classify_intent returns 'transportation' with a confidence of 0.5 or more.
C22_ExampleIsTransportation ==
    Called =>
        /\ result.intent = "transportation"
        /\ 2 * result.confidence >= ConfDen

\* the annotation least in favour: 'bus' the only noun, 'work' read as a
\* verb, which scores for career, and no entity
C22_Witness ==
    /\ Called
    /\ parsed_data.nouns = <<"bus">>
    /\ parsed_data.entities = <<>>
    /\ scores["career"] = VerbWeight
    /\ scores["transportation"] = NounWeight + PhraseWeight
    /\ result.intent = "transportation"

\* ------------------------------------------------------------------------
\* analyze_decision on questions of every category
\* ------------------------------------------------------------------------

\* one question per category, one that scores below the threshold for a
\* category, and one that scores nothing
RouteQuestions ==
    {"or Uber", "buy new", "eat out", "job offer", "or gym", "in love",
     "jobs", "hello"}

\* the pipelines on these questions: 'or Uber' has the docs it has among
\* Questions, the words of the others have one reading each
RoutePipelines ==
    { [q \in RouteQuestions |->
          IF q \in Questions THEN p[q] ELSE CHOOSE d \in Docs(q) : TRUE] :
        p \in Pipelines }

InitRoute ==
    /\ pc = "idle"
    /\ Constructed
    /\ text = ""
    /\ parsed_data = <<>>
    /\ scores = NoScores
    /\ phrase_hit = NoHits
    /\ result = NoResult
    /\ prev = NoCall
    /\ nlp \in RoutePipelines
    /\ NoThreads
    /\ cache = <<>>
    /\ constraints = NoConstraints
    /\ concern_scores = NoConcerns
    /\ report = NoReport
    /\ prev_report = [question |-> "", report |-> NoReport]
    /\ parse_log = <<>>
    /\ nlp_calls = <<>>
    /\ flow = NoFlow

NextRoute == \E q \in RouteQuestions : AnalyzeDecision(q)

SpecRoute == InitRoute /\ [][NextRoute]_vars

Analyzed == pc = "analyzed"

\* C23: analyze_decision produces the general analysis exactly when the
\* confidence is below 0.35; every 'general' result is below it, so the
\* final else of the chain is never the branch taken; otherwise the analysis
\* of the classified category is produced.
C23_RoutingByConfidence ==
    Analyzed =>
        /\ (report.analysis = "general_analysis") = ~ClearsThreshold
        /\ result.intent = "general" => ~ClearsThreshold
        /\ ClearsThreshold =>
               /\ result.intent \in Intents
               /\ report.analysis = "analyze_" \o result.intent
        /\ RouteBranch(result.intent, result.confidence) # "final_else"

\* a category is classified below the threshold and the general analysis is
\* produced, after a question of another category got its own analysis
C23_Witness ==
    /\ Analyzed
    /\ result.intent = "career"
    /\ ~ClearsThreshold
    /\ report.analysis = "general_analysis"
    /\ "in love" \in DOMAIN cache

\* ------------------------------------------------------------------------
\* The /analyze handler and the calls of the pipeline
\* ------------------------------------------------------------------------

\* POST /analyze: parser.parse(question), classify_intent(question, parsed),
\* then analyze_decision(question), which parses the question itself again
AnalyzeRequest(q) ==
    LET parsed == ParseReturn(nlp, cache, q)
        cache1 == ParseCache(nlp, cache, q)
        calls1 == NlpCalls(nlp_calls, cache, q)
        log1   == FirstReturns(parse_log, q, parsed)
    IN  /\ text' = q
        /\ parsed_data' = ParseReturn(nlp, cache1, q)
        /\ cache' = ParseCache(nlp, cache1, q)
        /\ nlp_calls' = NlpCalls(calls1, cache1, q)
        /\ parse_log' = FirstReturns(log1, q, parsed_data')
        /\ scores' = ScoresFrom(self_intent_patterns, q, parsed)
        /\ phrase_hit' = PhraseHits(self_intent_patterns, q)
        /\ result' = Decide(scores')
        /\ self_intent_patterns' =
               PatternsAfterClassify(PatternsAfterClassify(self_intent_patterns))
        /\ concern_scores' = ConcernScoresFrom(self_constraint_keywords,
                                               lower(q))
        /\ constraints' = ExtractConstraintsFrom(self_constraint_keywords,
                                                 parsed_data', q)
        \* analyze_decision classifies the record of its own parse; on the
        \* same record classify_intent gives the handler's result again
        /\ LET own == IF parsed_data' = parsed THEN result'
                      ELSE Decide(ScoresFrom(self_intent_patterns, q,
                                             parsed_data'))
           IN  report' = Report(own.intent, own.confidence, q, parsed_data',
                                constraints')
        /\ pc' = "responded"
        /\ UNCHANGED <<self_constraint_keywords, prev, nlp, prev_report, flow,
                       thread_vars>>

NextRequest ==
    \/ \E q \in Questions : Parse(q)
    \/ \E q \in Questions : AnalyzeDecision(q)
    \/ \E q \in Questions : AnalyzeRequest(q)

SpecRequest == InitAnalyzer /\ [][NextRequest]_vars

\* how many times the pipeline was called on a text
CallsOn(calls, q) == IF q \in DOMAIN calls THEN calls[q] ELSE 0

\* the pipeline was called once on every text parsed so far, and on no other
OnceForEachParsed ==
    \A q \in Questions :
        CallsOn(nlp_calls, q) = IF q \in DOMAIN parse_log THEN 1 ELSE 0

\* a step that ends a request has called the pipeline at most once, and on
\* the question of the request
RequestCallsAtMostOnce ==
    pc' = "responded" =>
        \A q \in Questions :
            CallsOn(nlp_calls', q)
                <= CallsOn(nlp_calls, q) + (IF q = text' THEN 1 ELSE 0)
            /\ (CallsOn(nlp_calls', q) # CallsOn(nlp_calls, q)
                    => ~CacheHit(cache, q))

\* C28: in any sequential run the pipeline is called exactly once for each
\* distinct text: by the first parse of the text, never by a later one; so
\* one /analyze request, which parses its question twice, calls it at most
\* once.
C28_ProviderOncePerText ==
    /\ []OnceForEachParsed
    /\ [][RequestCallsAtMostOnce]_vars

\* a request has answered a question parsed for the first time by the
\* request itself, after the other questions were parsed, one call each
C28_Witness ==
    /\ pc = "responded"
    /\ \A q \in Questions : CallsOn(nlp_calls, q) = 1
    /\ DOMAIN cache = Questions

\* ------------------------------------------------------------------------
\* Several threads in parse on one ScenarioParser
\* ------------------------------------------------------------------------

\* one parser with a loaded pipeline and an empty cache, no call begun
InitParseThreads ==
    /\ pc = "threads"
    /\ Constructed
    /\ text = ""
    /\ parsed_data = <<>>
    /\ scores = NoScores
    /\ phrase_hit = NoHits
    /\ result = NoResult
    /\ prev = NoCall
    /\ nlp \in Pipelines
    /\ cache = <<>>
    /\ constraints = NoConstraints
    /\ concern_scores = NoConcerns
    /\ report = NoReport
    /\ prev_report = [question |-> "", report |-> NoReport]
    /\ parse_log = <<>>
    /\ nlp_calls = <<>>
    /\ flow = NoFlow
    /\ frames = [t \in Threads |-> IdleFrame]
    /\ cells = <<>>

\* what the parse steps of a thread leave alone
parse_thread_unchanged ==
    <<pc, classifier_vars, prev, self_constraint_keywords, nlp, constraints,
      concern_scores, report, prev_report, flow, cells>>

\* a thread calls parse(q)
BeginParse(t, q) ==
    /\ frames[t].step = "idle"
    /\ frames' = [frames EXCEPT ![t] =
                     [@ EXCEPT !.step = "called", !.op = "parse",
                               !.text = q]]
    /\ UNCHANGED <<parse_thread_unchanged, cache, parse_log, nlp_calls>>

\* if text in self._cache
CheckCache(t) ==
    /\ frames[t].step = "called"
    /\ frames[t].op = "parse"
    /\ frames' = [frames EXCEPT ![t] =
                     [@ EXCEPT !.step = IF CacheHit(cache, frames[t].text)
                                        THEN "hit" ELSE "missed",
                               !.op = IF CacheHit(cache, frames[t].text)
                                      THEN "parse_hit" ELSE "parse_miss"]]
    /\ UNCHANGED <<parse_thread_unchanged, cache, parse_log, nlp_calls>>

\* return self._cache[text]
ReturnCached(t) ==
    /\ frames[t].step = "hit"
    /\ frames' = [frames EXCEPT ![t] =
                     [@ EXCEPT !.step = "returned",
                               !.ret = CachedRecord(cache, frames[t].text)]]
    /\ parse_log' = FirstReturns(parse_log, frames[t].text, frames'[t].ret)
    /\ UNCHANGED <<parse_thread_unchanged, cache, nlp_calls>>

\* doc = self.nlp(text) and the dict built from it, in the locals
BuildRecord(t) ==
    /\ frames[t].step = "missed"
    /\ frames' = [frames EXCEPT ![t] =
                     [@ EXCEPT !.step = "built",
                               !.parsed = BuildResult(frames[t].text,
                                                     nlp[frames[t].text])]]
    /\ nlp_calls' = CountCall(nlp_calls, frames[t].text)
    /\ UNCHANGED <<parse_thread_unchanged, cache, parse_log>>

\* self._cache[text] = result
StoreRecord(t) ==
    /\ frames[t].step = "built"
    /\ cache' = CacheStore(cache, frames[t].text, frames[t].parsed)
    /\ frames' = [frames EXCEPT ![t] = [@ EXCEPT !.step = "stored"]]
    /\ UNCHANGED <<parse_thread_unchanged, parse_log, nlp_calls>>

\* return result
ReturnBuilt(t) ==
    /\ frames[t].step = "stored"
    /\ frames' = [frames EXCEPT ![t] =
                     [@ EXCEPT !.step = "returned", !.ret = frames[t].parsed]]
    /\ parse_log' = FirstReturns(parse_log, frames[t].text, frames'[t].ret)
    /\ UNCHANGED <<parse_thread_unchanged, cache, nlp_calls>>

NextParseThreads ==
    \/ \E t \in Threads, q \in Questions : BeginParse(t, q)
    \/ \E t \in Threads : CheckCache(t)
    \/ \E t \in Threads : ReturnCached(t)
    \/ \E t \in Threads : BuildRecord(t)
    \/ \E t \in Threads : StoreRecord(t)
    \/ \E t \in Threads : ReturnBuilt(t)

SpecParseThreads == InitParseThreads /\ [][NextParseThreads]_vars

\* the threads whose parse has returned
ReturnedParse == {t \in Threads : frames[t].step = "returned"}

\* the threads that are past the membership check of a text and found it
\* absent
PastCheck(q) ==
    {t \in Threads : frames[t].op = "parse_miss" /\ frames[t].text = q}

\* C29: when parse calls for the same text interleave, also when several
\* pass the membership check before any stores, the calls return equal
\* records; once a call has stored, the cache holds for the text one record,
\* equal to what every call returned; and no entry of the cache is ever
\* missing a part of the record parse builds.
C29_InterleavedParseAgree ==
    /\ \A t \in ReturnedParse, u \in ReturnedParse :
           frames[t].text = frames[u].text => frames[t].ret = frames[u].ret
    /\ \A t \in ReturnedParse :
           /\ CacheHit(cache, frames[t].text)
           /\ cache[frames[t].text] = frames[t].ret
    /\ \A t \in Threads :
           frames[t].step = "stored" => CacheHit(cache, frames[t].text)
    /\ \A k \in DOMAIN cache : cache[k] = BuildResult(k, nlp[k])

\* two calls for the same text both found it absent, both built, stored and
\* returned
C29_Witness ==
    /\ \E q \in Questions : {1, 2} \subseteq PastCheck(q)
    /\ {1, 2} \subseteq ReturnedParse
    /\ nlp_calls[frames[1].text] = 2
    /\ frames[1].ret = frames[2].ret
    /\ Len(frames[1].ret.tokens) >= 2

\* ------------------------------------------------------------------------
\* Two calls, the second with the letter case of its arguments changed
\* ------------------------------------------------------------------------

\* str.upper() of one character: the ASCII letters by the table, the sharp s
\* to 'SS', anything else unchanged
UpperChar(c) ==
    IF c = "ß" THEN "SS"
    ELSE IF \E u \in DOMAIN LowerTable : LowerTable[u] = c
         THEN CHOOSE u \in DOMAIN LowerTable : LowerTable[u] = c
         ELSE c

RECURSIVE upper(_)
\* str.upper()
upper(s) ==
    IF s = "" THEN "" ELSE UpperChar(SubSeq(s, 1, 1)) \o upper(Tail(s))

\* the two ways the case of a string is changed
Recase(how, s) == IF how = "upper" THEN upper(s) ELSE lower(s)

RecaseAll(how, lst) == [i \in DOMAIN lst |-> Recase(how, lst[i])]

\* the case of the entity texts changed, the labels as they are
RecaseEntities(how, entities) ==
    [i \in DOMAIN entities |->
        [entities[i] EXCEPT !.text = Recase(how, entities[i].text)]]

CaseTexts == {"or Uber", "Buy new Phone", "job Offer", "buß", "hello"}

\* the words of a text
Words(s) == LET toks == Tokenize(s) IN [i \in DOMAIN toks |-> toks[i].text]

CaseActions == {<<>>, <<"Go">>, <<"buy", "Join">>}

CaseNouns == {<<>>, <<"Office">>, <<"buß", "phone">>}

CaseEntities ==
    { <<>>,
      << [text |-> "Office", label |-> "GPE"] >>,
      << [text |-> "uber", label |-> "ORG"] >> }

CaseInputs ==
    { [text   |-> s,
       parsed |-> [tokens |-> Words(s), actions |-> a, nouns |-> m,
                   entities |-> e]] :
        s \in CaseTexts, a \in CaseActions, m \in CaseNouns,
        e \in CaseEntities }

\* the arguments a case change is applied to
CaseParts == {"text", "tokens", "actions", "nouns", "entities", "all"}

\* the arguments with the case of one of them, or of all, changed
Recased(how, part, txt, parsed) ==
    [text   |-> IF part \in {"text", "all"} THEN Recase(how, txt) ELSE txt,
     parsed |-> [tokens   |-> IF part \in {"tokens", "all"}
                              THEN RecaseAll(how, parsed.tokens)
                              ELSE parsed.tokens,
                 actions  |-> IF part \in {"actions", "all"}
                              THEN RecaseAll(how, parsed.actions)
                              ELSE parsed.actions,
                 nouns    |-> IF part \in {"nouns", "all"}
                              THEN RecaseAll(how, parsed.nouns)
                              ELSE parsed.nouns,
                 entities |-> IF part \in {"entities", "all"}
                              THEN RecaseEntities(how, parsed.entities)
                              ELSE parsed.entities]]

InitCase ==
    /\ pc = "ready"
    /\ \E input \in CaseInputs :
          /\ text = input.text
          /\ parsed_data = input.parsed
    /\ scores = NoScores
    /\ phrase_hit = NoHits
    /\ result = NoResult
    /\ prev = NoCall
    /\ Constructed
    /\ NoAnalyzer
    /\ NoThreads

\* the caller keeps the first call and calls classify_intent again with the
\* case changed
ClassifyIntentRecased ==
    /\ pc = "done"
    /\ \E how \in {"upper", "lower"}, part \in CaseParts :
          LET input == Recased(how, part, text, parsed_data)
          IN  /\ text' = input.text
              /\ parsed_data' = input.parsed
              /\ scores' = ScoresFrom(self_intent_patterns, input.text,
                                      input.parsed)
              /\ phrase_hit' = PhraseHits(self_intent_patterns, input.text)
    /\ result' = Decide(scores')
    /\ self_intent_patterns' = PatternsAfterClassify(self_intent_patterns)
    /\ prev' = [text |-> text, parsed |-> parsed_data, scores |-> scores,
                result |-> result]
    /\ pc' = "recased"
    /\ UNCHANGED <<analyzer_vars, thread_vars>>

NextCase == ClassifyIntent \/ ClassifyIntentRecased

SpecCase == InitCase /\ [][NextCase]_vars

CalledRecased == pc = "recased"

\* the characters of the ASCII letters and the space
AsciiChars ==
    {SubSeq(UpperCase \o LowerCase \o " ", i, i) :
        i \in 1..(2 * Len(UpperCase) + 1)}

IsAscii(s) == \A i \in 1..Len(s) : SubSeq(s, i, i) \in AsciiChars

\* every textual argument of the first call is made of ASCII characters
AsciiArguments ==
    /\ IsAscii(prev.text)
    /\ \A i \in DOMAIN prev.parsed.tokens : IsAscii(prev.parsed.tokens[i])
    /\ \A i \in DOMAIN prev.parsed.actions : IsAscii(prev.parsed.actions[i])
    /\ \A i \in DOMAIN prev.parsed.nouns : IsAscii(prev.parsed.nouns[i])
    /\ \A i \in DOMAIN prev.parsed.entities :
           IsAscii(prev.parsed.entities[i].text)

\* C30 as stated: changing the letter case of the text, the tokens, the
\* actions, the nouns or the entity texts never changes a score, the
\* category or the confidence.
C30_CaseNeverMatters ==
    CalledRecased => (scores = prev.scores /\ result = prev.result)

\* C30: when the arguments are made of ASCII characters, changing the
\* letter case of the text, the tokens, the actions, the nouns or the entity
\* texts (labels unchanged) changes no category's score, nor the returned
\* category, nor the confidence.
C30_CaseInsensitiveAscii ==
    (CalledRecased /\ AsciiArguments) =>
        (scores = prev.scores /\ result = prev.result)

\* every argument in capitals, some of them mixed before, and a category
\* that scores on a phrase, a modifier, a verb and a noun
C30_Witness ==
    /\ CalledRecased
    /\ AsciiArguments
    /\ text = "BUY NEW PHONE"
    /\ prev.text = "Buy new Phone"
    /\ parsed_data.actions = <<"BUY", "JOIN">>
    /\ parsed_data.nouns = <<"OFFICE">>
    /\ parsed_data.tokens = <<"BUY", "NEW", "PHONE">>
    /\ result.intent = "purchase"
    /\ scores = prev.scores

====
